---- MODULE Spec2Model ----
(***************************************************************************)
(* The Pali lexicon generator: UltimateCompoundSemanticCompositor and      *)
(* UltimateMonumentalPaliDictionaryGenerator (src/unnamed/part_000).       *)
(*                                                                         *)
(* Python dicts keep insertion order, and the generator iterates them, so  *)
(* a dict is a record [keys, at]: keys is the insertion order, at the      *)
(* mapping.  Frequencies are kept in thousandths (3.0 is 3000) so that the *)
(* products with 0.8, 0.9 and 0.7 stay integers.  Strings are ASCII: the   *)
(* diacritics of the Pali words are dropped and the root sign is "/".      *)
(***************************************************************************)
EXTENDS Integers, Sequences, FiniteSets, TLC

VARIABLES
    pc,                  \* position inside generate_ultimate_dictionary
    phase_log,           \* the phases that have run, in order
    semantic_fields,     \* kb.semantic_fields: field -> words
    existing_words,      \* self.existing_words
    limits,              \* self.limits
    generated_dict,      \* self.generated_dict
    generation_stats,    \* self.generation_stats
    generated_compounds, \* compound_compositor.generated_compounds
    compounds,           \* the mapping generate_unlimited_compounds accumulates
    sub_counts,          \* number of compounds each compositor sub-phase returned
    quality_stats,       \* self.quality_stats: counter name -> count
    previous_run,        \* what the previous call of generate_ultimate_dictionary left
    validation_failures, \* number of candidates discarded because validate_meaning failed
    dictionary,          \* st.session_state.dictionary: entries, search_index, loaded
    session,             \* st.session_state.search_history and .last_search
    search_call,         \* the call of search under way: its arguments and its result
    history_log          \* the queries searched: by first submission, by last insertion

generator_vars ==
    <<pc, phase_log, semantic_fields, existing_words, limits, generated_dict,
      generation_stats, generated_compounds, compounds, sub_counts, quality_stats,
      previous_run, validation_failures>>

app_vars == <<dictionary, session, search_call, history_log>>

vars == <<generator_vars, app_vars>>

(***************************************************************************)
(* Bounds of the model.                                                    *)
(***************************************************************************)
\* the largest small per-sub-phase compound budget (max_total // 4) that Init draws
MaxQuarter == 2

\* the one large per-sub-phase budget Init draws: room for every three-word
\* extension of one base compound and for four-word compounds after them
LargeQuarter == 12

(***************************************************************************)
(* Python helpers.                                                         *)
(***************************************************************************)
\* a for loop over s[lo..hi] that threads acc through the body Op; the range is
\* halved so that the evaluation stays shallow, and the left half is computed
\* before the right half starts
RECURSIVE FoldRange(_, _, _, _, _)
FoldRange(Op(_, _), acc, s, lo, hi) ==
    IF lo > hi THEN acc
    ELSE IF lo = hi THEN Op(acc, s[lo])
    ELSE LET mid == (lo + hi) \div 2
             left == FoldRange(Op, acc, s, lo, mid)
         IN IF {left} = {} THEN acc ELSE FoldRange(Op, left, s, mid + 1, hi)

\* for x in s: acc = Op(acc, x); acc is computed before the loop starts
FoldLeft(Op(_, _), acc, s) ==
    IF {acc} = {} THEN acc ELSE FoldRange(Op, acc, s, 1, Len(s))

Range(s) == {s[i] : i \in DOMAIN s}

\* s[:n]
Take(s, n) == IF Len(s) <= n THEN s ELSE SubSeq(s, 1, n)

\* [x for x in s if Test(x)]
Filter(Test(_), s) == SelectSeq(s, Test)

\* every order list(set(...)) can yield for the set S
ListsOfSet(S) ==
    {s \in [1..Cardinality(S) -> S] : Range(s) = S}

EmptyDict == [keys |-> <<>>, at |-> <<>>]

Has(d, k) == k \in DOMAIN d.at

\* d[k] = v
Put(d, k, v) ==
    IF Has(d, k) THEN [d EXCEPT !.at[k] = v]
    ELSE [keys |-> Append(d.keys, k), at |-> d.at @@ (k :> v)]

\* d.update(e)
Update(d, e) ==
    LET Step(acc, k) == Put(acc, k, e.at[k]) IN FoldLeft(Step, d, e.keys)

\* d.items() as a list of keys
Items(d) == d.keys

(***************************************************************************)
(* The seed knowledge base.  The tables of the parent knowledge base       *)
(* (base_meanings, root_meanings, prefix_meanings, derivation_patterns)    *)
(* are data; the model keeps a few entries of each.                        *)
(***************************************************************************)
FieldNames ==
    <<"particles", "prefixes", "numbers", "beings", "qualities", "mind", "body">>

\* the words that semantic_fields distributes over the fields
FieldWords == {"sa", "ti", "sati"}

\* kb.base_meanings
base_meanings ==
    [keys |-> <<"sa", "sati">>,
     at   |-> [w \in {"sa", "sati"} |->
                 IF w = "sa"
                 THEN [primary |-> "good", frequency |-> 3000]
                 ELSE [primary |-> "mindfulness", frequency |-> 4500]]]

\* kb.comprehensive_indeclinables
comprehensive_indeclinables ==
    [keys |-> <<"ti", "ca">>,
     at   |-> [w \in {"ti", "ca"} |->
                 IF w = "ti"
                 THEN [type |-> "particle", meaning |-> "thus", position |-> "enclitic",
                       frequency |-> 4000]
                 ELSE [type |-> "conjunction", meaning |-> "and", position |-> "enclitic",
                       frequency |-> 5000]]]

\* kb.proper_names
proper_names ==
    [keys |-> <<"ananda">>,
     at   |-> [w \in {"ananda"} |-> [meaning |-> "Ananda", type |-> "disciple"]]]

\* kb.root_meanings; clean is root.replace("/", "")
root_meanings ==
    [keys |-> <<"/gam">>,
     at   |-> [r \in {"/gam"} |->
                 [meaning |-> "go", semantic_field |-> "action", frequency |-> "high",
                  clean |-> "gam"]]]

\* kb.prefix_meanings
prefix_meanings ==
    [keys |-> <<"pa">>, at |-> [x \in {"pa"} |-> "forth"]]

\* kb.derivation_patterns: category -> suffix -> info; bare is suffix.replace("-", "")
derivation_patterns ==
    [keys |-> <<"agent_nouns", "abstract_nouns">>,
     at   |-> [c \in {"agent_nouns", "abstract_nouns"} |->
                 IF c = "agent_nouns"
                 THEN [keys |-> <<"-aka">>,
                       at |-> [x \in {"-aka"} |-> [bare |-> "aka", gender |-> "m"]]]
                 ELSE [keys |-> <<"-ta">>,
                       at |-> [x \in {"-ta"} |-> [bare |-> "ta", gender |-> "f"]]]]]

\* kb.comprehensive_technical_vocabulary: field -> terms; a term may be listed twice
comprehensive_technical_vocabulary ==
    [keys |-> <<"abhidhamma", "meditation">>,
     at   |-> [f \in {"abhidhamma", "meditation"} |-> <<"citta">>]]

\* kb.phrasal_expressions
phrasal_expressions ==
    [keys |-> <<"sukhi-hotu">>,
     at   |-> [p \in {"sukhi-hotu"} |-> "may you be happy"]]

\* kb.liturgical_formulas
liturgical_formulas ==
    [keys |-> <<"sadhu">>,
     at   |-> [p \in {"sadhu"} |-> "well said"]]

\* kb.complete_numerals; the value of a numeral is a number for most numerals
\* and a text for some ("last", a unit of measure): value_text is that text,
\* and is "" when the value is a number
complete_numerals ==
    [keys |-> <<"ti", "sata", "antima">>,
     at   |-> [n \in {"ti", "sata", "antima"} |->
                 CASE n = "ti"   -> [type |-> "cardinal", value |-> 3, value_text |-> "",
                                     meaning |-> "three"]
                   [] n = "sata" -> [type |-> "cardinal", value |-> 100, value_text |-> "",
                                     meaning |-> "hundred"]
                   [] OTHER      -> [type |-> "ordinal", value |-> 0,
                                     value_text |-> "last", meaning |-> "last, final"]]]

\* isinstance(info["value"], int)
IsNumber(info) == info.value_text = ""

\* the keys of the seed entries
SeedKeys ==
    Range(base_meanings.keys) \cup Range(comprehensive_indeclinables.keys)
    \cup UNION {Range(comprehensive_technical_vocabulary.at[f]) :
                  f \in Range(comprehensive_technical_vocabulary.keys)}
    \cup Range(phrasal_expressions.keys) \cup Range(complete_numerals.keys)

\* info["semantic_field"] of a base word: the field of semantic_fields that lists it
BaseSemanticField(sf, word) ==
    LET listed == Filter(LAMBDA f : word \in sf[f], FieldNames)
    IN IF listed = <<>> THEN "general" ELSE Head(listed)


(***************************************************************************)
(* CompoundSemanticCompositor: the helpers the compositor inherits.        *)
(***************************************************************************)
\* the sandhi rule table: the junction written for the right-hand component
SandhiTable == (<<"ti", "sa">> :> "ssa") @@ (<<"sati", "eva">> :> "yeva")

\* join(left, right) of the sandhi engine, as the text it appends after left
Junction(left, right) ==
    IF <<left, right>> \in DOMAIN SandhiTable THEN SandhiTable[<<left, right>>]
    ELSE right

\* _apply_compound_sandhi(components): left fold of join over the components
ApplyCompoundSandhi(components) ==
    LET Step(acc, c) ==
            IF acc.last = "" THEN [surface |-> c, last |-> c]
            ELSE [surface |-> acc.surface \o Junction(acc.last, c), last |-> c]
    IN FoldLeft(Step, [surface |-> "", last |-> ""], components).surface

\* _get_semantic_fields(word): the fields of kb.semantic_fields that list the word
GetSemanticFields(sf, word) == {f \in DOMAIN sf : word \in sf[f]}

\* _get_word_meaning(word): the gloss, the word itself when it has none
GetWordMeaning(word) ==
    IF Has(base_meanings, word) THEN base_meanings.at[word].primary
    ELSE IF Has(comprehensive_indeclinables, word)
         THEN comprehensive_indeclinables.at[word].meaning
    ELSE word

\* compose_meaning(components, compound_type)
ComposeMeaning(components, compound_type) ==
    LET first == GetWordMeaning(components[1])
        last  == GetWordMeaning(components[Len(components)])
    IN CASE compound_type = "karmadharaya" -> first \o " " \o last
         [] compound_type = "dvandva"      -> first \o " and " \o last
         [] OTHER                          -> last \o " of " \o first

(***************************************************************************)
(* UltimateCompoundSemanticCompositor                                      *)
(***************************************************************************)
NoCompoundInfo ==
    [components |-> <<>>, type |-> "", meaning |-> "", frequency |-> 0,
     religious_core |-> "", base_compound |-> "", depth |-> 0]

\* _get_word_frequency(word), in thousandths
GetWordFrequency(word) ==
    IF Has(base_meanings, word) THEN base_meanings.at[word].frequency
    ELSE IF Has(comprehensive_indeclinables, word)
         THEN comprehensive_indeclinables.at[word].frequency
    ELSE 3000

\* mutation of the combination frequency: the sum, not the mean, times 0.8
CalculateCombinationFrequencyOfSum(word1, word2) ==
    ((GetWordFrequency(word1) + GetWordFrequency(word2)) * 8) \div 10

\* _calculate_combination_frequency(word1, word2): the mean times 0.8
CalculateCombinationFrequency(word1, word2) ==
    ((GetWordFrequency(word1) + GetWordFrequency(word2)) * 4) \div 10

\* the two tables of _is_meaningful_combination
meaningless_combinations ==
    {<<{"particles"}, {"particles"}>>, <<{"prefixes"}, {"prefixes"}>>,
     <<{"numbers"}, {"numbers"}>>}

meaningful_combinations ==
    {<<{"qualities"}, {"beings"}>>, <<{"action"}, {"objects"}>>,
     <<{"temporal"}, {"events"}>>, <<{"spatial"}, {"entities"}>>,
     <<{"mind"}, {"qualities"}>>, <<{"enlightenment"}, {"path"}>>,
     <<{"ethics"}, {"practice"}>>}

\* any(f in combo[0] for f in fields1) and any(f in combo[1] for f in fields2),
\* for some combo of the table
MatchesTable(table, fields1, fields2) ==
    \E combo \in table : fields1 \cap combo[1] # {} /\ fields2 \cap combo[2] # {}

\* mutation of _is_meaningful_combination: a pair outside both tables is refused
IsMeaningfulCombinationByTable(sf, word1, word2) ==
    LET fields1 == GetSemanticFields(sf, word1)
        fields2 == GetSemanticFields(sf, word2)
    IN IF MatchesTable(meaningless_combinations, fields1, fields2) THEN FALSE
       ELSE MatchesTable(meaningful_combinations, fields1, fields2)

\* _is_meaningful_combination(word1, word2)
IsMeaningfulCombination(sf, word1, word2) ==
    LET fields1 == GetSemanticFields(sf, word1)
        fields2 == GetSemanticFields(sf, word2)
    IN IF MatchesTable(meaningless_combinations, fields1, fields2) THEN FALSE
       ELSE IF MatchesTable(meaningful_combinations, fields1, fields2) THEN TRUE
       ELSE TRUE

\* mutation of _determine_compound_type: the rule for identical fields is dropped
DetermineCompoundTypeWithoutIdentity(sf, word1, word2) ==
    LET fields1 == GetSemanticFields(sf, word1)
        fields2 == GetSemanticFields(sf, word2)
    IN IF fields1 \cap {"beings", "society"} # {} THEN "tatpurusa"
       ELSE IF fields1 \cap {"qualities", "colors"} # {} THEN "karmadharaya"
       ELSE IF fields2 \cap {"body", "faculties"} # {} THEN "bahuvrihi"
       ELSE "tatpurusa"

\* mutation of _determine_compound_type: the rule on the second word comes first
DetermineCompoundTypeSecondWordFirst(sf, word1, word2) ==
    LET fields1 == GetSemanticFields(sf, word1)
        fields2 == GetSemanticFields(sf, word2)
    IN IF fields2 \cap {"body", "faculties"} # {} THEN "bahuvrihi"
       ELSE IF fields1 \cap {"beings", "society"} # {} THEN "tatpurusa"
       ELSE IF fields1 \cap {"qualities", "colors"} # {} THEN "karmadharaya"
       ELSE IF fields1 = fields2 THEN "dvandva"
       ELSE "tatpurusa"

\* _determine_compound_type(word1, word2)
DetermineCompoundType(sf, word1, word2) ==
    LET fields1 == GetSemanticFields(sf, word1)
        fields2 == GetSemanticFields(sf, word2)
    IN IF fields1 \cap {"beings", "society"} # {} THEN "tatpurusa"
       ELSE IF fields1 \cap {"qualities", "colors"} # {} THEN "karmadharaya"
       ELSE IF fields2 \cap {"body", "faculties"} # {} THEN "bahuvrihi"
       ELSE IF fields1 = fields2 THEN "dvandva"
       ELSE "tatpurusa"

\* mutation of _determine_religious_compound_type: the second word is not compared
DetermineReligiousCompoundTypeFirstOnly(word1, word2, core) ==
    IF core = word1 THEN "core_modifier" ELSE "religious_tatpurusa"

\* _determine_religious_compound_type(word1, word2, core)
DetermineReligiousCompoundType(word1, word2, core) ==
    IF core = word1 THEN "core_modifier"
    ELSE IF core = word2 THEN "modifier_core"
    ELSE "religious_tatpurusa"

\* mutation of _compose_religious_meaning: no text of its own around the glosses
ComposeReligiousMeaningBare(components, compound_type, core) ==
    IF compound_type = "core_modifier" THEN "" ELSE GetWordMeaning(components[1])

\* _compose_religious_meaning(components, compound_type, core)
ComposeReligiousMeaning(components, compound_type, core) ==
    LET meanings == [i \in DOMAIN components |-> GetWordMeaning(components[i])]
    IN IF compound_type = "core_modifier" THEN meanings[1] \o "'s " \o meanings[2]
       ELSE IF compound_type = "modifier_core" THEN meanings[2] \o " of " \o meanings[1]
       ELSE meanings[2] \o " related to " \o meanings[1]

\* the test and the insertion every sub-phase ends with:
\* if compound not in compounds and compound not in self.generated_compounds
AddCompound(acc, compound, info) ==
    IF ~Has(acc.compounds, compound) /\ compound \notin acc.generated_compounds
    THEN [compounds |-> Put(acc.compounds, compound, info),
          generated_compounds |-> acc.generated_compounds \cup {compound},
          count |-> acc.count + 1]
    ELSE acc

\* the words of every field, before list(set(all_words)) orders them
AllWords(sf) == UNION {sf[f] : f \in DOMAIN sf}

\* the pairs (i, j) of two nested loops over a list of n elements
IndexPairs(n) == [k \in 1..(n * n) |-> <<((k - 1) \div n) + 1, ((k - 1) % n) + 1>>]

\* _generate_all_basic_combinations(semantic_fields, max_count); all_words is the
\* order list(set(all_words)) produced
GenerateAllBasicCombinations(sf, max_count, all_words, gc) ==
    LET Step(acc, ij) ==
            LET word1 == all_words[ij[1]]
                word2 == all_words[ij[2]]
            IN IF acc.count >= max_count \/ ij[1] = ij[2] THEN acc
               ELSE IF ~IsMeaningfulCombination(sf, word1, word2) THEN acc
               ELSE LET compound_type == DetermineCompoundType(sf, word1, word2)
                    IN AddCompound(acc, ApplyCompoundSandhi(<<word1, word2>>),
                         [NoCompoundInfo EXCEPT
                            !.components = <<word1, word2>>,
                            !.type = compound_type,
                            !.meaning = ComposeMeaning(<<word1, word2>>, compound_type),
                            !.frequency = CalculateCombinationFrequency(word1, word2)])
    IN FoldLeft(Step, [compounds |-> EmptyDict, generated_compounds |-> gc, count |-> 0],
                IndexPairs(Len(all_words)))

religious_cores ==
    <<"buddha", "dhamma", "sangha", "nibbana", "kamma", "sila", "samadhi", "panna">>

philosophical_cores ==
    <<"sacca", "magga", "phala", "vimutti", "bodhi", "nana", "karuna", "metta">>

\* the words of every field but particles and prefixes
AllOthers(sf) == UNION {sf[f] : f \in DOMAIN sf \ {"particles", "prefixes"}}

\* _generate_religious_philosophical_compounds(semantic_fields, max_count);
\* all_others is the order list(set(all_others)) produced
GenerateReligiousPhilosophicalCompounds(max_count, all_others, gc) ==
    LET CoreStep(acc0, core) ==
            LET OrderStep(acc, pair) ==
                    LET word1 == pair[1]
                        word2 == pair[2]
                        compound_type == DetermineReligiousCompoundType(word1, word2, core)
                    IN IF word1 = word2 THEN acc
                       ELSE AddCompound(acc, ApplyCompoundSandhi(<<word1, word2>>),
                              [NoCompoundInfo EXCEPT
                                 !.components = <<word1, word2>>,
                                 !.type = "religious_" \o compound_type,
                                 !.meaning = ComposeReligiousMeaning(<<word1, word2>>,
                                                                     compound_type, core),
                                 !.religious_core = core,
                                 !.frequency = 3500])
                OtherStep(acc, other) ==
                    IF acc.count >= max_count THEN acc
                    ELSE FoldLeft(OrderStep, acc, <<<<core, other>>, <<other, core>>>>)
            IN IF acc0.count >= max_count THEN acc0
               ELSE FoldLeft(OtherStep, acc0, all_others)
    IN FoldLeft(CoreStep, [compounds |-> EmptyDict, generated_compounds |-> gc, count |-> 0],
                religious_cores \o philosophical_cores)

\* technical_vocab: the terms of every field of the technical vocabulary, in order
TechnicalVocab ==
    LET Step(acc, field) == acc \o comprehensive_technical_vocabulary.at[field]
    IN FoldLeft(Step, <<>>, comprehensive_technical_vocabulary.keys)

\* _generate_technical_specialized_compounds(semantic_fields, max_count)
GenerateTechnicalSpecializedCompounds(max_count, gc) ==
    LET Step(acc, ij) ==
            LET term1 == TechnicalVocab[ij[1]]
                term2 == TechnicalVocab[ij[2]]
            IN IF acc.count >= max_count \/ ij[1] = ij[2] THEN acc
               ELSE AddCompound(acc, ApplyCompoundSandhi(<<term1, term2>>),
                      [NoCompoundInfo EXCEPT
                         !.components = <<term1, term2>>,
                         !.type = "technical_compound",
                         !.meaning = "technical compound of " \o term1 \o " and " \o term2,
                         !.frequency = 2500])
    IN FoldLeft(Step, [compounds |-> EmptyDict, generated_compounds |-> gc, count |-> 0],
                IndexPairs(Len(TechnicalVocab)))

extensions ==
    <<"nana", "dassana", "vimutti", "magga", "phala", "sampatti",
      "patilabha", "adhigama", "pativeda", "sacchikiriya">>

\* suitable_bases[:1000]
MaxSuitableBases == 1000

\* three_word_compounds[:500]
MaxThreeWordBases == 500

\* extensions[:3]
FourWordExtensions == 3

\* full_meaning = f"{ext_meaning} of {base_meaning}" for three words,
\* f"{ext_meaning} involving {base_meaning}" for four
ExtendedMeaning(ext, link, base_meaning) ==
    GetWordMeaning(ext) \o link \o base_meaning

\* _generate_multi_level_recursive_compounds(existing_compounds, max_count)
GenerateMultiLevelRecursiveCompounds(existing_compounds, max_count, gc) ==
    LET IsPair(comp) == Len(existing_compounds.at[comp].components) = 2
        suitable_bases == Filter(IsPair, Items(existing_compounds))
        Extend(acc0, base_compound, base_info, exts, type, depth, link, frequency) ==
            LET ExtStep(acc, ext) ==
                    LET components == base_info.components \o <<ext>>
                    IN IF acc.count >= max_count THEN acc
                       ELSE AddCompound(acc, ApplyCompoundSandhi(components),
                              [NoCompoundInfo EXCEPT
                                 !.components = components,
                                 !.type = type,
                                 !.meaning = ExtendedMeaning(ext, link, base_info.meaning),
                                 !.base_compound = base_compound,
                                 !.depth = depth,
                                 !.frequency = frequency])
            IN IF acc0.count >= max_count THEN acc0 ELSE FoldLeft(ExtStep, acc0, exts)
        ThreeStep(acc, base_compound) ==
            Extend(acc, base_compound, existing_compounds.at[base_compound], extensions,
                   "three_word_compound", 3, " of ", 2000)
        three == FoldLeft(ThreeStep,
                          [compounds |-> EmptyDict, generated_compounds |-> gc, count |-> 0],
                          Take(suitable_bases, MaxSuitableBases))
        IsThree(comp) == three.compounds.at[comp].depth = 3
        three_word_compounds == Filter(IsThree, Items(three.compounds))
        FourStep(acc, base_compound) ==
            Extend(acc, base_compound, acc.compounds.at[base_compound],
                   Take(extensions, FourWordExtensions),
                   "four_word_compound", 4, " involving ", 1800)
    IN FoldLeft(FourStep, three, Take(three_word_compounds, MaxThreeWordBases))


(***************************************************************************)
(* UltimateMonumentalPaliDictionaryGenerator: the registry.                *)
(***************************************************************************)
\* an entry of generated_dict; a field an entry does not carry is "" (0, <<>>,
\* FALSE).  phase records the phase that committed the entry.
NoEntry ==
    [word |-> "", meaning |-> "", type |-> "", phase |-> "",
     components |-> <<>>, base |-> "", base_compound |-> "", depth |-> 0,
     root |-> "", prefix |-> "", suffix |-> "", frequency |-> 0,
     derivation_level |-> "", primary_base |-> "", secondary_base |-> "", rare |-> FALSE,
     case |-> "", number |-> "", gender |-> "", person |-> "", tense |-> "", voice |-> "",
     sandhi_type |-> ""]

\* validator.enhance_meaning(meaning)
EnhanceMeaning(meaning) == meaning

\* validator.validate_meaning(meaning)[0]
ValidateMeaning(meaning) == meaning # ""

\* mutation of the commit idiom: the test of generated_dict is dropped
CommitOverwriting(st, key, entry) ==
    IF key \notin existing_words
    THEN [st EXCEPT !.generated_dict = Put(st.generated_dict, key, entry),
                    !.count = st.count + 1]
    ELSE st

\* if key not in self.existing_words and key not in self.generated_dict:
\*     self.generated_dict[key] = entry; count += 1
Commit(st, key, entry) ==
    IF key \notin existing_words /\ ~Has(st.generated_dict, key)
    THEN [st EXCEPT !.generated_dict = Put(st.generated_dict, key, entry),
                    !.count = st.count + 1]
    ELSE st

\* is_valid, _ = self.validator.validate_meaning(meaning); if is_valid: commit.
\* A candidate whose meaning is not valid is dropped; st.rejected counts them.
CommitIfValid(st, key, meaning, entry) ==
    IF key \in existing_words \/ Has(st.generated_dict, key) THEN st
    ELSE IF ValidateMeaning(meaning) THEN Commit(st, key, entry)
    ELSE [st EXCEPT !.rejected = st.rejected + 1]

\* _create_comprehensive_base_entry(word, info)
CreateComprehensiveBaseEntry(word) ==
    [NoEntry EXCEPT !.word = word,
                    !.meaning = EnhanceMeaning(base_meanings.at[word].primary),
                    !.type = "base",
                    !.phase = "base",
                    !.frequency = base_meanings.at[word].frequency]

\* _generate_all_register_variants(word, info) and
\* _generate_all_historical_variants(word, info): the register and historical
\* tables list none of the words of base_meanings
GenerateAllVariants(st, word) == st

\* _generate_ultimate_base_entries
GenerateUltimateBaseEntries(gd) ==
    LET BaseStep(st, word) ==
            IF word \notin existing_words
            THEN GenerateAllVariants(
                     [generated_dict |->
                          Put(st.generated_dict, word, CreateComprehensiveBaseEntry(word)),
                      count |-> st.count + 1],
                     word)
            ELSE st
        IndeclinableStep(st, word) ==
            LET info == comprehensive_indeclinables.at[word]
            IN Commit(st, word,
                   [NoEntry EXCEPT !.word = word,
                                   !.meaning = EnhanceMeaning(info.meaning),
                                   !.type = "indeclinable",
                                   !.phase = "base",
                                   !.frequency = info.frequency])
    IN FoldLeft(IndeclinableStep,
                FoldLeft(BaseStep, [generated_dict |-> gd, count |-> 0],
                         Items(base_meanings)),
                Items(comprehensive_indeclinables))

\* mutation of the commit loop: depth and base_compound are not copied
CommitCompoundsWithoutDepth(gd, comps) ==
    LET Step(st, compound) ==
            LET compound_info == comps.at[compound]
            IN Commit(st, compound,
                   [NoEntry EXCEPT !.word = compound,
                                   !.meaning = EnhanceMeaning(compound_info.meaning),
                                   !.type = "compound_" \o compound_info.type,
                                   !.phase = "compounds",
                                   !.components = compound_info.components,
                                   !.frequency = compound_info.frequency])
    IN FoldLeft(Step, [generated_dict |-> gd, count |-> 0], Items(comps))

\* _generate_unlimited_compounds: the loop that commits the compositor's compounds
CommitCompounds(gd, comps) ==
    LET Step(st, compound) ==
            LET compound_info == comps.at[compound]
            IN Commit(st, compound,
                   [NoEntry EXCEPT !.word = compound,
                                   !.meaning = EnhanceMeaning(compound_info.meaning),
                                   !.type = "compound_" \o compound_info.type,
                                   !.phase = "compounds",
                                   !.components = compound_info.components,
                                   !.frequency = compound_info.frequency,
                                   !.depth = compound_info.depth,
                                   !.base_compound = compound_info.base_compound])
    IN FoldLeft(Step, [generated_dict |-> gd, count |-> 0], Items(comps))


(***************************************************************************)
(* Phase 2: the morphological universe.  The morphology tables belong to   *)
(* the parent generator; a cell the table lacks yields no form (None).     *)
(***************************************************************************)
cases ==
    <<"nominative", "accusative", "instrumental", "dative",
      "ablative", "genitive", "locative", "vocative">>

numbers == <<"singular", "dual", "plural">>

persons == <<"1st", "2nd", "3rd">>

\* every <<x, y>> with x from xs and y from ys, x varying slowest (two nested loops)
Product(xs, ys) ==
    [k \in 1..(Len(xs) * Len(ys)) |->
        <<xs[((k - 1) \div Len(ys)) + 1], ys[((k - 1) % Len(ys)) + 1]>>]

\* the endings _apply_nominal_morphology attaches: <<case, number>> -> ending
NominalEndings ==
    (<<"nominative", "singular">> :> "") @@ (<<"accusative", "singular">> :> "m")
    @@ (<<"dative", "singular">> :> "ssa") @@ (<<"genitive", "singular">> :> "ssa")

\* _apply_nominal_morphology(base, case, number, gender); "" stands for None
ApplyNominalMorphology(base, case, number) ==
    IF <<case, number>> \in DOMAIN NominalEndings
    THEN base \o NominalEndings[<<case, number>>]
    ELSE ""

\* _should_skip_form(case, number, info)
ShouldSkipForm(case, number) == number = "dual"

\* morphological_generator.case_templates[case]["default"].format(x)
CaseTemplate(case, x) ==
    CASE case = "accusative"   -> x \o " (object)"
      [] case = "instrumental" -> "by " \o x
      [] case = "dative"       -> "for " \o x
      [] case = "ablative"     -> "from " \o x
      [] case = "genitive"     -> "of " \o x
      [] case = "locative"     -> "in " \o x
      [] case = "vocative"     -> "O " \o x
      [] OTHER                 -> x

\* morphological_generator.generate_nominal_meaning(base, case, number, gender)
GenerateNominalMeaning(base, case, number, gender) ==
    LET gloss == IF Has(base_meanings, base) THEN base_meanings.at[base].primary
                 ELSE IF Has(proper_names, base) THEN proper_names.at[base].meaning
                 ELSE ""
    IN IF gloss = "" THEN "" ELSE CaseTemplate(case, gloss)

\* _calculate_form_frequency(base, case, number)
CalculateFormFrequency(base, case, number) == (GetWordFrequency(base) * 8) \div 10

\* _determine_all_genders(base, info)
DetermineAllGenders(base) == <<"masculine">>

\* declinable_words of _generate_unlimited_nominal_forms
DeclinableWords ==
    LET IsDeclinable(w) ==
            BaseSemanticField(semantic_fields, w) \notin {"particles", "prefixes"}
        base_words == Filter(IsDeclinable, Items(base_meanings))
        TermStep(acc, term) == IF term \in Range(acc) THEN acc ELSE Append(acc, term)
    IN FoldLeft(TermStep, base_words \o Items(proper_names), TechnicalVocab)

\* _generate_unlimited_nominal_forms
GenerateUnlimitedNominalForms(gd) ==
    LET WordStep(st0, base) ==
            LET GenderStep(st1, gender) ==
                    LET CellStep(st, cn) ==
                            LET case == cn[1]
                                number == cn[2]
                                form == ApplyNominalMorphology(base, case, number)
                                meaning == GenerateNominalMeaning(base, case, number, gender)
                            IN IF ShouldSkipForm(case, number) THEN st
                               ELSE IF form # "" /\ form # base /\ Len(form) > 1
                               THEN CommitIfValid(st, form, meaning,
                                      [NoEntry EXCEPT
                                         !.word = form,
                                         !.meaning = EnhanceMeaning(meaning),
                                         !.type = "inflected_noun",
                                         !.phase = "morphological",
                                         !.base = base,
                                         !.case = case,
                                         !.number = number,
                                         !.gender = gender,
                                         !.frequency =
                                             CalculateFormFrequency(base, case, number)])
                               ELSE st
                    IN FoldLeft(CellStep, st1, Product(cases, numbers))
            IN FoldLeft(GenderStep, st0, DetermineAllGenders(base))
    IN FoldLeft(WordStep, [generated_dict |-> gd, count |-> 0, rejected |-> 0],
                DeclinableWords)

tenses ==
    <<"present", "aorist", "perfect", "future", "imperative", "optative", "conditional">>

voices ==
    <<"active", "middle", "passive", "causative", "desiderative", "intensive",
      "denominative">>

\* the stems and endings _apply_verbal_morphology uses
VerbStems == ("/gam" :> "gaccha")

VerbEndings ==
    (<<"present", "3rd", "singular">> :> "ti")
    @@ (<<"imperative", "1st", "singular">> :> "mi")
    @@ (<<"imperative", "2nd", "singular">> :> "hi")

\* _apply_verbal_morphology(root, person, number, tense, voice="active"); "" is None
ApplyVerbalMorphology(root, person, number, tense, voice) ==
    IF voice = "active" /\ root \in DOMAIN VerbStems
       /\ <<tense, person, number>> \in DOMAIN VerbEndings
    THEN VerbStems[root] \o VerbEndings[<<tense, person, number>>]
    ELSE ""

\* _is_valid_voice_combination(voice, tenses)
IsValidVoiceCombination(voice) == voice # "denominative"

\* _is_valid_tense_voice_combination(tense, voice)
IsValidTenseVoiceCombination(tense, voice) == ~(tense = "perfect" /\ voice = "passive")

\* mutation of the skip policy: the first person singular imperative is kept
ShouldSkipOnlyDual(tense, person, number, voice) == number = "dual"

\* _should_skip_verbal_form(tense, person, number, voice)
ShouldSkipVerbalForm(tense, person, number, voice) ==
    \/ number = "dual"
    \/ tense = "imperative" /\ person = "1st" /\ number = "singular"

\* morphological_generator.tense_templates[tense]["active"].format(x)
TenseTemplate(tense, x) ==
    CASE tense = "aorist"      -> x \o " (past)"
      [] tense = "perfect"     -> "has " \o x
      [] tense = "future"      -> "will " \o x
      [] tense = "imperative"  -> "let " \o x
      [] tense = "optative"    -> "may " \o x
      [] tense = "conditional" -> "would " \o x
      [] OTHER                 -> x \o "s"

\* morphological_generator._get_pronoun(person, number)
GetPronoun(person, number) ==
    CASE person = "1st" -> IF number = "singular" THEN "I" ELSE "we"
      [] person = "2nd" -> "you"
      [] OTHER          -> IF number = "singular" THEN "he/she/it" ELSE "they"

\* morphological_generator.generate_verbal_meaning(root, person, number, tense, voice)
GenerateVerbalMeaning(root, person, number, tense, voice) ==
    "(" \o GetPronoun(person, number) \o ") "
        \o TenseTemplate(tense, root_meanings.at[root].meaning)

\* _calculate_verb_frequency(tense, voice, person, number)
CalculateVerbFrequency(tense, voice, person, number) ==
    IF tense = "present" THEN 3500 ELSE 2500

\* the cells of three nested loops, in loop order
Product3(xs, ys, zs) ==
    LET yz == Product(ys, zs)
    IN [k \in 1..(Len(xs) * Len(yz)) |->
          <<xs[((k - 1) \div Len(yz)) + 1],
            yz[((k - 1) % Len(yz)) + 1][1], yz[((k - 1) % Len(yz)) + 1][2]>>]

\* _generate_unlimited_verbal_forms
GenerateUnlimitedVerbalForms(gd) ==
    LET RootStep(st0, root) ==
            LET VoiceStep(st1, voice) ==
                    LET CellStep(st, tpn) ==
                            LET tense == tpn[1]
                                person == tpn[2]
                                number == tpn[3]
                                form == ApplyVerbalMorphology(root, person, number, tense,
                                                              voice)
                                meaning == GenerateVerbalMeaning(root, person, number,
                                                                 tense, voice)
                            IN IF \/ ~IsValidTenseVoiceCombination(tense, voice)
                                  \/ ShouldSkipVerbalForm(tense, person, number, voice)
                               THEN st
                               ELSE IF form # "" /\ Len(form) > 2
                               THEN CommitIfValid(st, form, meaning,
                                      [NoEntry EXCEPT
                                         !.word = form,
                                         !.meaning = EnhanceMeaning(meaning),
                                         !.type = "verb",
                                         !.phase = "morphological",
                                         !.root = root,
                                         !.person = person,
                                         !.number = number,
                                         !.tense = tense,
                                         !.voice = voice,
                                         !.frequency =
                                             CalculateVerbFrequency(tense, voice, person,
                                                                    number)])
                               ELSE st
                    IN IF ~IsValidVoiceCombination(voice) THEN st1
                       ELSE FoldLeft(CellStep, st1, Product3(tenses, persons, numbers))
            IN FoldLeft(VoiceStep, st0, voices)
    IN FoldLeft(RootStep, [generated_dict |-> gd, count |-> 0, rejected |-> 0],
                Items(root_meanings))


\* participle_types of _generate_complete_participle_system, in dict order
participle_types ==
    <<"present_active", "present_middle", "present_passive", "past_passive",
      "past_active", "past_middle", "future_passive", "future_passive_2",
      "future_active", "perfect_active", "gerund", "gerund_prefixed", "infinitive",
      "absolutive", "conditional_participle", "temporal_participle">>

\* participle_types[p_type]["declinable"]
IsDeclinableParticiple(p_type) ==
    p_type \notin {"gerund", "gerund_prefixed", "infinitive", "absolutive",
                   "conditional_participle", "temporal_participle"}

\* participle_types[p_type]["meaning"]
ParticipleMeaning(p_type) ==
    CASE p_type = "past_passive" -> "ed"
      [] p_type = "gerund"       -> "having Xed"
      [] p_type = "infinitive"   -> "to X"
      [] OTHER                   -> "ing"

\* the participle stems _generate_participle_base knows: <<root, p_type>> -> base
ParticipleBases ==
    (<<"/gam", "past_passive">> :> "gata") @@ (<<"/gam", "gerund">> :> "gantva")

\* _generate_participle_base(clean_root, p_type, p_info, root_data); "" is None
GenerateParticipleBase(root, p_type) ==
    IF <<root, p_type>> \in DOMAIN ParticipleBases THEN ParticipleBases[<<root, p_type>>]
    ELSE ""

\* _apply_participle_declension(base_participle, p_type, gender, number, case)
ApplyParticipleDeclension(base_participle, p_type, gender, number, case) ==
    ApplyNominalMorphology(base_participle, case, number)

\* morphological_generator.generate_participle_meaning(root, p_type, gender, number)
GenerateParticipleMeaning(root, p_type, gender, number) ==
    root_meanings.at[root].meaning \o " (" \o ParticipleMeaning(p_type) \o ")"

genders == <<"masculine", "feminine", "neuter">>

\* _generate_complete_participle_system
GenerateCompleteParticipleSystem(gd) ==
    LET RootStep(st0, root) ==
            LET TypeStep(st1, p_type) ==
                    LET base_participle == GenerateParticipleBase(root, p_type)
                        CellStep(st, gnc) ==
                            LET gender == gnc[1]
                                number == gnc[2]
                                case == gnc[3]
                                form == ApplyParticipleDeclension(base_participle, p_type,
                                                                  gender, number, case)
                                full_meaning ==
                                    CaseTemplate(case,
                                        GenerateParticipleMeaning(root, p_type, gender,
                                                                  number))
                            IN IF form # ""
                               THEN CommitIfValid(st, form, full_meaning,
                                      [NoEntry EXCEPT
                                         !.word = form,
                                         !.meaning = EnhanceMeaning(full_meaning),
                                         !.type = "participle",
                                         !.phase = "morphological",
                                         !.root = root,
                                         !.gender = gender,
                                         !.number = number,
                                         !.case = case,
                                         !.frequency = 2500])
                               ELSE st
                    IN IF base_participle = "" THEN st1
                       ELSE IF ~IsDeclinableParticiple(p_type)
                       THEN Commit(st1, base_participle,
                              [NoEntry EXCEPT
                                 !.word = base_participle,
                                 !.meaning =
                                     EnhanceMeaning(root_meanings.at[root].meaning \o " ("
                                                    \o ParticipleMeaning(p_type) \o ")"),
                                 !.type = "participle",
                                 !.phase = "morphological",
                                 !.root = root,
                                 !.frequency = 3000])
                       ELSE FoldLeft(CellStep, st1, Product3(genders, numbers, cases))
            IN FoldLeft(TypeStep, st0, participle_types)
    IN FoldLeft(RootStep, [generated_dict |-> gd, count |-> 0, rejected |-> 0],
                Items(root_meanings))

\* _get_base_meaning(word)
GetBaseMeaning(word) == GetWordMeaning(word)

\* adjective_words of _generate_all_comparison_forms, before list(set(...)) orders them
AdjectiveWords ==
    {w \in Range(base_meanings.keys) :
        BaseSemanticField(semantic_fields, w) \in {"qualities", "colors", "mental_factors"}}
    \cup UNION {semantic_fields[f] :
                  f \in DOMAIN semantic_fields \cap {"qualities", "mental_factors", "emotions"}}

\* _generate_all_comparison_forms; adjective_words is the order list(set(...)) produced
GenerateAllComparisonForms(gd, adjective_words) ==
    LET AdjStep(st0, adj) ==
            LET Form(st, suffix, bare, degree, meaning) ==
                    Commit(st, adj \o bare,
                        [NoEntry EXCEPT
                           !.word = adj \o bare,
                           !.meaning = EnhanceMeaning(meaning),
                           !.type = "derivative_comparison",
                           !.phase = "morphological",
                           !.base = adj,
                           !.suffix = suffix,
                           !.frequency = 2500])
                base_meaning == GetBaseMeaning(adj)
                more == "more " \o base_meaning \o ", rather " \o base_meaning
                most == "most " \o base_meaning \o ", very " \o base_meaning
            IN Form(Form(Form(Form(st0, "-tara", "tara", "comparative", more),
                              "-iya", "iya", "comparative", more),
                         "-tama", "tama", "superlative", most),
                    "-ittha", "ittha", "superlative", most)
    IN FoldLeft(AdjStep, [generated_dict |-> gd, count |-> 0], adjective_words)

\* patterns of _generate_all_denominative_forms, in dict order
denominative_patterns == <<"-ayati", "-iyati", "-eti", "-apeti", "-karoti", "-bhavati">>

\* patterns[suffix].replace("X", base_meaning)
DenominativeTemplate(suffix, m) ==
    CASE suffix = "-ayati"   -> "acts like " \o m \o ", desires " \o m
      [] suffix = "-iyati"   -> "behaves as " \o m
      [] suffix = "-eti"     -> "makes into " \o m
      [] suffix = "-apeti"   -> "causes to become " \o m
      [] suffix = "-karoti"  -> "does " \o m
      [] OTHER               -> "becomes " \o m

\* the forms _generate_denominative_form knows: <<suffix, tense, person, number>> -> ending
DenominativeEndings ==
    (<<"-ayati", "present", "3rd", "singular">> :> "ayati")
    @@ (<<"-ayati", "imperative", "1st", "singular">> :> "ayami")
    @@ (<<"-ayati", "imperative", "2nd", "singular">> :> "ayahi")

\* _generate_denominative_form(base, suffix, person, number, tense); "" is None
GenerateDenominativeForm(base, suffix, person, number, tense) ==
    IF <<suffix, tense, person, number>> \in DOMAIN DenominativeEndings
    THEN base \o DenominativeEndings[<<suffix, tense, person, number>>]
    ELSE ""

\* _generate_all_denominative_forms
GenerateAllDenominativeForms(gd) ==
    LET IsNounBase(w) ==
            BaseSemanticField(semantic_fields, w)
                \in {"beings", "qualities", "emotions", "mind", "society", "nature"}
        noun_bases == Filter(IsNounBase, Items(base_meanings))
        BaseStep(st0, base) ==
            LET SuffixStep(st1, suffix) ==
                    LET CellStep(st, tpn) ==
                            LET tense == tpn[1]
                                person == tpn[2]
                                number == tpn[3]
                                form == GenerateDenominativeForm(base, suffix, person,
                                                                 number, tense)
                                final_meaning ==
                                    "(" \o GetPronoun(person, number) \o ") "
                                    \o TenseTemplate(tense,
                                         DenominativeTemplate(suffix, GetBaseMeaning(base)))
                            IN IF tense = "imperative" /\ person = "1st"
                                  /\ number = "singular"
                               THEN st
                               ELSE IF form # ""
                               THEN Commit(st, form,
                                      [NoEntry EXCEPT
                                         !.word = form,
                                         !.meaning = EnhanceMeaning(final_meaning),
                                         !.type = "derivative_denominative_verbs",
                                         !.phase = "morphological",
                                         !.base = base,
                                         !.suffix = suffix,
                                         !.person = person,
                                         !.number = number,
                                         !.tense = tense,
                                         !.frequency = 2000])
                               ELSE st
                    IN FoldLeft(CellStep, st1,
                                Product3(<<"present", "aorist", "future", "imperative",
                                           "optative">>, persons, numbers))
            IN FoldLeft(SuffixStep, st0, denominative_patterns)
    IN FoldLeft(BaseStep, [generated_dict |-> gd, count |-> 0], noun_bases)

\* _generate_complete_morphological_universe
GenerateCompleteMorphologicalUniverse(gd, adjective_words) ==
    LET a == GenerateUnlimitedNominalForms(gd)
        b == GenerateUnlimitedVerbalForms(a.generated_dict)
        c == GenerateCompleteParticipleSystem(b.generated_dict)
        d == GenerateAllComparisonForms(c.generated_dict, adjective_words)
        e == GenerateAllDenominativeForms(d.generated_dict)
    IN [generated_dict |-> e.generated_dict,
        count |-> a.count + b.count + c.count + d.count + e.count,
        rejected |-> a.rejected + b.rejected + c.rejected]


(***************************************************************************)
(* Phase 3: the prefixed universe.                                         *)
(***************************************************************************)
\* _apply_prefix_sandhi(prefix, form)
ApplyPrefixSandhi(prefix, form) == ApplyCompoundSandhi(<<prefix, form>>)

\* _generate_single_prefix_participles(root, prefix, root_data)
GenerateSinglePrefixParticiples(st, root, prefix) ==
    LET base_participle == GenerateParticipleBase(root, "past_passive")
        form == ApplyPrefixSandhi(prefix, base_participle)
    IN IF base_participle = "" THEN st
       ELSE Commit(st, form,
              [NoEntry EXCEPT
                 !.word = form,
                 !.meaning = EnhanceMeaning(prefix_meanings.at[prefix] \o " "
                                            \o root_meanings.at[root].meaning \o " (ed)"),
                 !.type = "prefixed_participle",
                 !.phase = "prefixed",
                 !.root = root,
                 !.prefix = prefix,
                 !.frequency = 2500])

\* _generate_all_single_prefix_combinations
GenerateAllSinglePrefixCombinations(gd) ==
    LET RootStep(st0, root) ==
            LET PrefixStep(st1, prefix) ==
                    LET CellStep(st, tpn) ==
                            LET tense == tpn[1]
                                person == tpn[2]
                                number == tpn[3]
                                base_form == ApplyVerbalMorphology(root, person, number,
                                                                   tense, "active")
                                prefixed_form == ApplyPrefixSandhi(prefix, base_form)
                                full_meaning ==
                                    "(" \o GetPronoun(person, number) \o ") "
                                    \o TenseTemplate(tense,
                                         prefix_meanings.at[prefix] \o " "
                                         \o root_meanings.at[root].meaning)
                            IN IF ShouldSkipVerbalForm(tense, person, number, "active")
                               THEN st
                               ELSE IF base_form # ""
                               THEN Commit(st, prefixed_form,
                                      [NoEntry EXCEPT
                                         !.word = prefixed_form,
                                         !.meaning = EnhanceMeaning(full_meaning),
                                         !.type = "prefixed_verb",
                                         !.phase = "prefixed",
                                         !.root = root,
                                         !.prefix = prefix,
                                         !.person = person,
                                         !.number = number,
                                         !.tense = tense,
                                         !.frequency = 3500])
                               ELSE st
                    IN GenerateSinglePrefixParticiples(
                           FoldLeft(CellStep, st1,
                                    Product3(<<"present", "aorist", "future", "imperative",
                                               "optative", "conditional">>,
                                             persons, numbers)),
                           root, prefix)
            IN FoldLeft(PrefixStep, st0, Items(prefix_meanings))
    IN FoldLeft(RootStep, [generated_dict |-> gd, count |-> 0], Items(root_meanings))

double_prefixes ==
    <<<<"sam", "anu">>, <<"sam", "pa">>, <<"sam", "pari">>, <<"sam", "ud">>, <<"sam", "a">>,
      <<"pari", "ni">>, <<"pari", "a">>, <<"pari", "ud">>, <<"pari", "pa">>,
      <<"vi", "pa">>, <<"vi", "ni">>, <<"vi", "a">>, <<"vi", "sam">>, <<"vi", "pari">>,
      <<"anu", "pa">>, <<"anu", "vi">>, <<"anu", "sam">>, <<"anu", "pari">>,
      <<"pa", "ni">>, <<"pa", "vi">>, <<"pa", "a">>, <<"pa", "ud">>,
      <<"ud", "pa">>, <<"ud", "a">>, <<"ud", "sam">>, <<"ud", "vi">>,
      <<"ni", "pa">>, <<"ni", "vi">>, <<"ni", "sam">>, <<"ni", "a">>,
      <<"a", "pa">>, <<"a", "vi">>, <<"a", "sam">>, <<"a", "pari">>,
      <<"abhi", "sam">>, <<"abhi", "a">>, <<"abhi", "vi">>, <<"abhi", "ud">>,
      <<"adhi", "tha">>, <<"adhi", "vas">>, <<"adhi", "gam">>, <<"adhi", "kar">>>>

\* self.kb.prefix_meanings.get(prefix, prefix)
PrefixMeaning(prefix) ==
    IF Has(prefix_meanings, prefix) THEN prefix_meanings.at[prefix] ELSE prefix

\* list(self.kb.root_meanings.keys())[:100]
MaxFrequentRoots == 100

\* _generate_all_double_prefix_combinations
GenerateAllDoublePrefixCombinations(gd) ==
    LET IsHigh(root) == root_meanings.at[root].frequency = "high"
        high == Filter(IsHigh, Items(root_meanings))
        frequent_roots ==
            IF high = <<>> THEN Take(Items(root_meanings), MaxFrequentRoots) ELSE high
        PairStep(st0, pp) ==
            LET RootStep(st1, root) ==
                    LET CellStep(st, tn) ==
                            LET tense == tn[1]
                                number == tn[2]
                                base_form == ApplyVerbalMorphology(root, "3rd", number,
                                                                   tense, "active")
                                prefixed_form ==
                                    ApplyPrefixSandhi(pp[1],
                                                      ApplyPrefixSandhi(pp[2], base_form))
                                full_meaning ==
                                    "(" \o GetPronoun("3rd", number) \o ") "
                                    \o TenseTemplate(tense,
                                         PrefixMeaning(pp[1]) \o " " \o PrefixMeaning(pp[2])
                                         \o " " \o root_meanings.at[root].meaning)
                            IN IF base_form # ""
                               THEN Commit(st, prefixed_form,
                                      [NoEntry EXCEPT
                                         !.word = prefixed_form,
                                         !.meaning = EnhanceMeaning(full_meaning),
                                         !.type = "prefixed_verb",
                                         !.phase = "prefixed",
                                         !.root = root,
                                         !.prefix = pp[1] \o "+" \o pp[2],
                                         !.person = "3rd",
                                         !.number = number,
                                         !.tense = tense,
                                         !.frequency = 2500])
                               ELSE st
                    IN FoldLeft(CellStep, st1,
                                Product(<<"present", "aorist", "future">>,
                                        <<"singular", "plural">>))
            IN FoldLeft(RootStep, st0, frequent_roots)
    IN FoldLeft(PairStep, [generated_dict |-> gd, count |-> 0], double_prefixes)

triple_prefixes ==
    <<<<"sam", "a", "pa">>, <<"sam", "pari", "a">>, <<"vi", "sam", "a">>,
      <<"anu", "sam", "pa">>, <<"pari", "sam", "a">>, <<"abhi", "sam", "a">>>>

top_roots == <<"/gam", "/kar", "/bhu", "/tha", "/dis">>

\* _generate_triple_prefix_combinations
GenerateTriplePrefixCombinations(gd) ==
    LET TripleStep(st0, ppp) ==
            LET RootStep(st, root) ==
                    LET base_form ==
                            ApplyVerbalMorphology(root, "3rd", "singular", "present",
                                                  "active")
                        prefixed_form ==
                            ApplyPrefixSandhi(ppp[1],
                                ApplyPrefixSandhi(ppp[2],
                                    ApplyPrefixSandhi(ppp[3], base_form)))
                        combined_meaning ==
                            PrefixMeaning(ppp[1]) \o " " \o PrefixMeaning(ppp[2]) \o " "
                            \o PrefixMeaning(ppp[3]) \o " " \o root_meanings.at[root].meaning
                    IN IF Has(root_meanings, root) /\ base_form # ""
                       THEN Commit(st, prefixed_form,
                              [NoEntry EXCEPT
                                 !.word = prefixed_form,
                                 !.meaning = EnhanceMeaning("(he/she/it) "
                                                            \o combined_meaning \o "s"),
                                 !.type = "prefixed_verb",
                                 !.phase = "prefixed",
                                 !.root = root,
                                 !.prefix = ppp[1] \o "+" \o ppp[2] \o "+" \o ppp[3],
                                 !.person = "3rd",
                                 !.number = "singular",
                                 !.tense = "present",
                                 !.frequency = 1500,
                                 !.rare = TRUE])
                       ELSE st
            IN FoldLeft(RootStep, st0, top_roots)
    IN FoldLeft(TripleStep, [generated_dict |-> gd, count |-> 0], triple_prefixes)

\* _generate_complete_prefixed_universe
GenerateCompletePrefixedUniverse(gd) ==
    LET a == GenerateAllSinglePrefixCombinations(gd)
        b == GenerateAllDoublePrefixCombinations(a.generated_dict)
        c == GenerateTriplePrefixCombinations(b.generated_dict)
    IN [generated_dict |-> c.generated_dict, count |-> a.count + b.count + c.count]

(***************************************************************************)
(* Phase 5: the derivational universe.                                     *)
(***************************************************************************)
\* derivational_generator.generate_derivative_meaning(base, suffix, category, context)
GenerateDerivativeMeaning(base, category) ==
    LET gloss == IF Has(root_meanings, base) THEN root_meanings.at[base].meaning
                 ELSE GetBaseMeaning(base)
    IN CASE category = "agent_nouns"    -> "one who " \o gloss \o "s"
         [] category = "abstract_nouns" -> "state of " \o gloss
         [] OTHER                       -> gloss

\* _calculate_derivative_frequency(base, suffix, category)
CalculateDerivativeFrequency(base, category) ==
    IF category = "agent_nouns" THEN 3000 ELSE 2500

\* base.replace("/", "") for a root key, the word itself otherwise
StripRootSign(base) ==
    IF Has(root_meanings, base) THEN root_meanings.at[base].clean ELSE base

\* entry["type"].startswith("derivative_")
IsDerivativeType(type) ==
    type \in {"derivative_agent_nouns", "derivative_abstract_nouns",
              "derivative_verbal_nouns", "derivative_comparison",
              "derivative_denominative_verbs", "derivative_diminutives"}

\* the primary loop of _generate_complete_derivational_universe
GeneratePrimaryDerivatives(gd) ==
    LET NotParticle(w) == BaseSemanticField(semantic_fields, w) # "particles"
        CategoryStep(st0, category) ==
            LET patterns == derivation_patterns.at[category]
                SuffixStep(st1, suffix) ==
                    LET bases == IF category \in {"verbal_nouns", "agent_nouns"}
                                 THEN Items(root_meanings)
                                 ELSE Filter(NotParticle, Items(base_meanings))
                        BaseStep(st, base) ==
                            LET form == StripRootSign(base) \o patterns.at[suffix].bare
                            IN Commit(st, form,
                                 [NoEntry EXCEPT
                                    !.word = form,
                                    !.meaning = EnhanceMeaning(
                                                  GenerateDerivativeMeaning(base, category)),
                                    !.type = "derivative_" \o category,
                                    !.phase = "derivatives",
                                    !.base = base,
                                    !.suffix = suffix,
                                    !.gender = patterns.at[suffix].gender,
                                    !.frequency =
                                        CalculateDerivativeFrequency(base, category)])
                    IN FoldLeft(BaseStep, st1, bases)
            IN FoldLeft(SuffixStep, st0, Items(patterns))
    IN FoldLeft(CategoryStep, [generated_dict |-> gd, count |-> 0],
                Items(derivation_patterns))

\* secondary_patterns: the dict literal lists "-ika" twice, the later value wins
secondary_patterns ==
    <<[suffix |-> "-ta",   bare |-> "ta",   category |-> "abstract_nouns",
       before |-> "state of being ", after |-> ""],
      [suffix |-> "-tva",  bare |-> "tva",  category |-> "abstract_nouns",
       before |-> "nature of ", after |-> ""],
      [suffix |-> "-ya",   bare |-> "ya",   category |-> "abstract_nouns",
       before |-> "condition of ", after |-> ""],
      [suffix |-> "-ka",   bare |-> "ka",   category |-> "diminutives",
       before |-> "little ", after |-> ""],
      [suffix |-> "-ika",  bare |-> "ika",  category |-> "agent_nouns",
       before |-> "one who does ", after |-> ""],
      [suffix |-> "-tara", bare |-> "tara", category |-> "comparison",
       before |-> "more ", after |-> ""],
      [suffix |-> "-tama", bare |-> "tama", category |-> "comparison",
       before |-> "most ", after |-> ""]>>

\* derivational_generator.generate_secondary_derivative(primary_word, suffix, category)
GenerateSecondaryDerivative(gd, primary_word, pat) ==
    pat.before \o gd.at[primary_word].meaning \o pat.after

\* primary_entry.get("frequency", 2.0) * 0.8
SecondaryDecay(frequency) == (frequency * 8) \div 10

\* _generate_all_secondary_derivatives
GenerateAllSecondaryDerivatives(gd) ==
    LET IsPrimary(word) ==
            /\ IsDerivativeType(gd.at[word].type)
            /\ gd.at[word].type \notin {"derivative_abstract_nouns",
                                        "derivative_comparison"}
        primary_derivatives == Filter(IsPrimary, Items(gd))
        PrimaryStep(st0, primary_word) ==
            LET primary_entry == gd.at[primary_word]
                PatternStep(st, pat) ==
                    LET secondary_form == primary_word \o pat.bare
                    IN Commit(st, secondary_form,
                         [NoEntry EXCEPT
                            !.word = secondary_form,
                            !.meaning = EnhanceMeaning(
                                GenerateSecondaryDerivative(gd, primary_word, pat)),
                            !.type = "derivative_" \o pat.category,
                            !.phase = "derivatives",
                            !.base = primary_word,
                            !.primary_base = primary_entry.base,
                            !.suffix = pat.suffix,
                            !.derivation_level = "secondary",
                            !.frequency = SecondaryDecay(primary_entry.frequency)])
            IN FoldLeft(PatternStep, st0, secondary_patterns)
    IN FoldLeft(PrimaryStep, [generated_dict |-> gd, count |-> 0], primary_derivatives)

tertiary_patterns ==
    <<[suffix |-> "-ta", bare |-> "ta", before |-> "state of being "],
      [suffix |-> "-ka", bare |-> "ka", before |-> "little "]>>

\* the [:500] slice of the secondary derivatives
MaxTertiaryBases == 500

\* mutation of the tertiary decay: the factor of the secondary level, 0.8
TertiaryDecayLikeSecondary(frequency) == (frequency * 8) \div 10

\* secondary_entry.get("frequency", 2.0) * 0.7
TertiaryDecay(frequency) == (frequency * 7) \div 10

\* _generate_tertiary_derivatives
GenerateTertiaryDerivatives(gd) ==
    LET IsSecondary(word) == gd.at[word].derivation_level = "secondary"
        secondary_derivatives == Take(Filter(IsSecondary, Items(gd)), MaxTertiaryBases)
        SecondaryStep(st0, secondary_word) ==
            LET secondary_entry == gd.at[secondary_word]
                PatternStep(st, pat) ==
                    LET tertiary_form == secondary_word \o pat.bare
                    IN Commit(st, tertiary_form,
                         [NoEntry EXCEPT
                            !.word = tertiary_form,
                            !.meaning = EnhanceMeaning(pat.before
                                                       \o secondary_entry.meaning),
                            !.type = "derivative_abstract_nouns",
                            !.phase = "derivatives",
                            !.base = secondary_word,
                            !.secondary_base = secondary_entry.base,
                            !.primary_base = secondary_entry.primary_base,
                            !.suffix = pat.suffix,
                            !.derivation_level = "tertiary",
                            !.frequency = TertiaryDecay(secondary_entry.frequency),
                            !.rare = TRUE])
            IN FoldLeft(PatternStep, st0, tertiary_patterns)
    IN FoldLeft(SecondaryStep, [generated_dict |-> gd, count |-> 0],
                secondary_derivatives)

\* _generate_complete_derivational_universe
GenerateCompleteDerivationalUniverse(gd) ==
    LET a == GeneratePrimaryDerivatives(gd)
        b == GenerateAllSecondaryDerivatives(a.generated_dict)
        c == GenerateTertiaryDerivatives(b.generated_dict)
    IN [generated_dict |-> c.generated_dict, count |-> a.count + b.count + c.count]

(***************************************************************************)
(* Phases 6 to 8: technical vocabulary, phrasal expressions, numerals.     *)
(***************************************************************************)
\* _generate_all_technical_inflections(term, field)
GenerateAllTechnicalInflections(st0, term, field) ==
    LET CellStep(st, cn) ==
            LET form == ApplyNominalMorphology(term, cn[1], cn[2])
            IN IF form # "" /\ form # term
               THEN Commit(st, form,
                      [NoEntry EXCEPT
                         !.word = form,
                         !.meaning = EnhanceMeaning(
                             CaseTemplate(cn[1], term \o " (technical term in "
                                                 \o field \o ")")),
                         !.type = "inflected_noun",
                         !.phase = "technical",
                         !.base = term,
                         !.case = cn[1],
                         !.number = cn[2],
                         !.frequency = 2500])
               ELSE st
    IN FoldLeft(CellStep, st0, Product(cases, numbers))

\* _generate_complete_technical_vocabulary
GenerateCompleteTechnicalVocabulary(gd) ==
    LET FieldStep(st0, field) ==
            LET TermStep(st, term) ==
                    LET technical_meaning ==
                            IF Has(base_meanings, term)
                            THEN base_meanings.at[term].primary
                                 \o " (technical term in " \o field \o ")"
                            ELSE "technical term in " \o field
                        committed ==
                            Commit(st, term,
                              [NoEntry EXCEPT
                                 !.word = term,
                                 !.meaning = EnhanceMeaning(technical_meaning),
                                 !.type = "technical_term",
                                 !.phase = "technical",
                                 !.frequency = 3000])
                    IN IF committed = st THEN st
                       ELSE GenerateAllTechnicalInflections(committed, term, field)
            IN FoldLeft(TermStep, st0, comprehensive_technical_vocabulary.at[field])
    IN FoldLeft(FieldStep, [generated_dict |-> gd, count |-> 0],
                Items(comprehensive_technical_vocabulary))

\* phrase.split("-")
SplitPhrase(phrase) ==
    IF phrase = "sukhi-hotu" THEN <<"sukhi", "hotu">> ELSE <<phrase>>

\* _generate_complete_phrasal_universe
GenerateCompletePhrasalUniverse(gd) ==
    LET PhraseStep(st, phrase) ==
            Commit(st, phrase,
              [NoEntry EXCEPT
                 !.word = phrase,
                 !.meaning = EnhanceMeaning(phrasal_expressions.at[phrase]),
                 !.type = "phrasal_expression",
                 !.phase = "phrasal",
                 !.components = SplitPhrase(phrase),
                 !.frequency = 3500])
        FormulaStep(st, formula) ==
            Commit(st, formula,
              [NoEntry EXCEPT
                 !.word = formula,
                 !.meaning = EnhanceMeaning(liturgical_formulas.at[formula]),
                 !.type = "liturgical_formula",
                 !.phase = "phrasal",
                 !.frequency = 2500])
    IN FoldLeft(FormulaStep,
                FoldLeft(PhraseStep, [generated_dict |-> gd, count |-> 0],
                         Items(phrasal_expressions)),
                Items(liturgical_formulas))

\* _generate_numeral_inflections(numeral, info)
GenerateNumeralInflections(st0, numeral) ==
    LET CellStep(st, cn) ==
            LET form == ApplyNominalMorphology(numeral, cn[1], cn[2])
            IN IF form # "" /\ form # numeral
               THEN Commit(st, form,
                      [NoEntry EXCEPT
                         !.word = form,
                         !.meaning = EnhanceMeaning(
                             CaseTemplate(cn[1], complete_numerals.at[numeral].meaning)),
                         !.type = "numeral_inflected",
                         !.phase = "numerals",
                         !.base = numeral,
                         !.case = cn[1],
                         !.number = cn[2],
                         !.frequency = 2500])
               ELSE st
    IN FoldLeft(CellStep, st0, Product(cases, numbers))

\* the patterns of _generate_all_numerical_compounds: <<second component, gloss>>
numerical_patterns ==
    <<<<"Y", "X Y">>, <<"Y", "Y of X">>,
      <<"divasa", " days">>, <<"ratti", " nights">>, <<"masa", " months">>,
      <<"vassa", " years">>, <<"vara", " times">>, <<"kkhattam", " times">>,
      <<"bhaga", " parts">>, <<"koti", " crores">>, <<"gatha", " verses">>,
      <<"sutta", " discourses">>>>

\* numbers[:50]
MaxNumbers == 50

\* countable_nouns[:20]
MaxCountableNouns == 20

\* the largest value of a numeral that enters a numerical compound
MaxCompoundValue == 1000

\* the largest value of a numeral that is inflected
MaxInflectedValue == 100

\* the largest value of a numeral of frequency 4.0
MaxFrequentValue == 10

\* _generate_all_numerical_compounds
GenerateAllNumericalCompounds(gd) ==
    LET IsSmallCardinal(n) == /\ complete_numerals.at[n].type = "cardinal"
                              /\ IsNumber(complete_numerals.at[n])
                              /\ complete_numerals.at[n].value <= MaxCompoundValue
        number_words == Filter(IsSmallCardinal, Items(complete_numerals))
        IsCountable(w) ==
            BaseSemanticField(semantic_fields, w) \notin {"particles", "prefixes", "abstract"}
        countable_nouns == Filter(IsCountable, Items(base_meanings))
        NumStep(st0, num_word) ==
            LET num == complete_numerals.at[num_word]
                Entry(compound, second, meaning) ==
                    [NoEntry EXCEPT
                       !.word = compound,
                       !.meaning = EnhanceMeaning(meaning),
                       !.type = "numerical_compound",
                       !.phase = "numerals",
                       !.components = <<num_word, second>>,
                       !.frequency = IF num.value <= MaxFrequentValue THEN 3000 ELSE 2500]
                PatternStep(st1, pattern) ==
                    LET NounStep(st, noun) ==
                            Commit(st, ApplyCompoundSandhi(<<num_word, noun>>),
                                   Entry(ApplyCompoundSandhi(<<num_word, noun>>), noun,
                                         IF pattern[2] = "X Y"
                                         THEN num.meaning \o " " \o GetBaseMeaning(noun)
                                         ELSE GetBaseMeaning(noun) \o " of " \o num.meaning))
                    IN IF pattern[1] = "Y"
                       THEN FoldLeft(NounStep, st1, Take(countable_nouns, MaxCountableNouns))
                       ELSE Commit(st1, ApplyCompoundSandhi(<<num_word, pattern[1]>>),
                                   Entry(ApplyCompoundSandhi(<<num_word, pattern[1]>>),
                                         pattern[1], num.meaning \o pattern[2]))
            IN FoldLeft(PatternStep, st0, numerical_patterns)
    IN FoldLeft(NumStep, [generated_dict |-> gd, count |-> 0],
                Take(number_words, MaxNumbers))

\* mutation of _generate_complete_numerical_universe: a numeral is written
\* whether or not its key is taken
GenerateCompleteNumericalUniverseUnguarded(gd) ==
    LET NumeralStep(st, numeral) ==
            LET info == complete_numerals.at[numeral]
            IN IF st.raised \/ numeral \in existing_words THEN st
               ELSE IF ~IsNumber(info) THEN [st EXCEPT !.raised = TRUE]
               ELSE [st EXCEPT
                       !.generated_dict =
                           Put(st.generated_dict, numeral,
                               [NoEntry EXCEPT
                                  !.word = numeral,
                                  !.meaning = EnhanceMeaning(info.meaning),
                                  !.type = "numeral_" \o info.type,
                                  !.phase = "numerals",
                                  !.frequency = IF info.value <= MaxFrequentValue
                                                THEN 4000 ELSE 3000]),
                       !.count = st.count + 1]
        a == FoldLeft(NumeralStep, [generated_dict |-> gd, count |-> 0, raised |-> FALSE],
                      Items(complete_numerals))
        b == GenerateAllNumericalCompounds(a.generated_dict)
    IN IF a.raised THEN a
       ELSE [generated_dict |-> b.generated_dict, count |-> a.count + b.count,
             raised |-> FALSE]

\* _generate_complete_numerical_universe.  info["value"] <= 10 raises TypeError
\* for a numeral whose value is a text: the entry is not built, the loop and the
\* phase end there (raised), and the entries written before it stay.
GenerateCompleteNumericalUniverse(gd) ==
    LET NumeralStep(st, numeral) ==
            LET info == complete_numerals.at[numeral]
                here == [generated_dict |-> st.generated_dict, count |-> st.count]
                committed ==
                    Commit(here, numeral,
                      [NoEntry EXCEPT
                         !.word = numeral,
                         !.meaning = EnhanceMeaning(info.meaning),
                         !.type = "numeral_" \o info.type,
                         !.phase = "numerals",
                         !.frequency =
                             IF info.value <= MaxFrequentValue THEN 4000 ELSE 3000])
                inflected ==
                    IF info.type \in {"cardinal", "ordinal"}
                       /\ info.value <= MaxInflectedValue
                    THEN GenerateNumeralInflections(committed, numeral)
                    ELSE committed
            IN IF st.raised \/ numeral \in existing_words
                  \/ Has(st.generated_dict, numeral)
               THEN st
               ELSE IF ~IsNumber(info) THEN [st EXCEPT !.raised = TRUE]
               ELSE [generated_dict |-> inflected.generated_dict,
                     count |-> inflected.count, raised |-> FALSE]
        a == FoldLeft(NumeralStep, [generated_dict |-> gd, count |-> 0, raised |-> FALSE],
                      Items(complete_numerals))
        b == GenerateAllNumericalCompounds(a.generated_dict)
    IN IF a.raised THEN a
       ELSE [generated_dict |-> b.generated_dict, count |-> a.count + b.count,
             raised |-> FALSE]

(***************************************************************************)
(* Phases 9 to 11: sandhi variants, proper names, validation.              *)
(***************************************************************************)
\* the table _get_all_sandhi_alternatives reads: <<first, second>> -> junctions
SandhiAlternativesTable ==
    (<<"citta", "citta">> :> <<"cittacitta", "cittaccitta">>)
    @@ (<<"ti", "sa">> :> <<"tissa", "tisa">>)
    @@ (<<"buddha", "sati">> :> <<"buddhassati">>)

\* _get_all_sandhi_alternatives(first, second)
GetAllSandhiAlternatives(first, second) ==
    IF <<first, second>> \in DOMAIN SandhiAlternativesTable
    THEN SandhiAlternativesTable[<<first, second>>]
    ELSE <<>>

\* entry["type"].startswith("compound_")
IsCompoundType(type) ==
    type \in {"compound_" \o t :
                t \in {"tatpurusa", "karmadharaya", "bahuvrihi", "dvandva",
                       "religious_core_modifier", "religious_modifier_core",
                       "religious_religious_tatpurusa", "technical_compound",
                       "three_word_compound", "four_word_compound"}}

\* "".join(components)
Concat(components) ==
    LET Step(acc, c) == acc \o c
    IN FoldLeft(Step, "", components)

\* compound_entry.get("frequency", 2.0) * 0.9
VariantDecay(frequency) == (frequency * 9) \div 10

\* _generate_all_compound_boundary_sandhi
GenerateAllCompoundBoundarySandhi(gd) ==
    LET IsCompound(word) == IsCompoundType(gd.at[word].type)
        compound_entries == Filter(IsCompound, Items(gd))
        CompoundStep(st0, compound_word) ==
            LET compound_entry == gd.at[compound_word]
                components == compound_entry.components
                BoundaryStep(st1, i) ==
                    LET AltStep(st, alt_sandhi) ==
                            LET variant ==
                                    Concat(SubSeq(components, 1, i - 1) \o <<alt_sandhi>>
                                           \o SubSeq(components, i + 2, Len(components)))
                            IN IF variant # compound_word
                               THEN Commit(st, variant,
                                      [NoEntry EXCEPT
                                         !.word = variant,
                                         !.meaning = compound_entry.meaning
                                                     \o " (alternative sandhi)",
                                         !.type = "sandhi_variant",
                                         !.phase = "sandhi",
                                         !.base = compound_word,
                                         !.components = components,
                                         !.sandhi_type = "compound_boundary",
                                         !.frequency =
                                             VariantDecay(compound_entry.frequency)])
                               ELSE st
                    IN FoldLeft(AltStep, st1,
                                GetAllSandhiAlternatives(components[i], components[i + 1]))
            IN IF Len(components) >= 2
               THEN FoldLeft(BoundaryStep, st0, [i \in 1..(Len(components) - 1) |-> i])
               ELSE st0
    IN FoldLeft(CompoundStep, [generated_dict |-> gd, count |-> 0], compound_entries)

\* list(self.kb.prefix_meanings.keys())[:20]
MaxCombinerPrefixes == 20

\* common_combiners: <<category, combiner>> in the order the loops visit them
common_combiners ==
    [i \in 1..11 |-> <<"particles", <<"ca", "va", "api", "eva", "iti", "ti", "nu", "kho",
                                      "pana", "hi", "tu">>[i]>>]
    \o [i \in 1..9 |-> <<"pronouns", <<"ayam", "idam", "etam", "tam", "yam", "kim", "so",
                                       "sa", "te">>[i]>>]
    \o [i \in 1..4 |-> <<"negations", <<"na", "no", "ma", "natthi">>[i]>>]
    \o LET prefixes == Take(Items(prefix_meanings), MaxCombinerPrefixes)
       IN [i \in 1..Len(prefixes) |-> <<"prefixes", prefixes[i]>>]

\* entry.get("frequency", 0) >= 4.0
HighFrequency == 4000

\* len(word) < 12
MaxCombinedWordLen == 12

\* high_freq_words[:200]
MaxHighFreqWords == 200

\* len(combined) > 2
MinCombinedLen == 2

\* _apply_all_sandhi_to_combination(first, second)
ApplyAllSandhiToCombination(first, second) ==
    <<first \o second, ApplyCompoundSandhi(<<first, second>>)>>

\* _compose_combination_meaning(first_meaning, second_meaning, category), the
\* meanings being _get_word_meaning_for_combination(word)
ComposeCombinationMeaning(first, second, category) ==
    GetWordMeaning(first) \o " " \o GetWordMeaning(second)

\* _generate_all_word_combination_sandhi
GenerateAllWordCombinationSandhi(gd) ==
    LET IsHighFreq(word) == /\ gd.at[word].frequency >= HighFrequency
                            /\ Len(word) < MaxCombinedWordLen
        high_freq_words == Take(Filter(IsHighFreq, Items(gd)), MaxHighFreqWords)
        CombinerStep(st0, cc) ==
            LET WordStep(st1, word) ==
                    LET ComboStep(st2, combo) ==
                            LET first == combo[1]
                                second == combo[2]
                                VariantStep(st, combined) ==
                                    IF /\ combined # ""
                                       /\ combined # first \o second
                                       /\ Len(combined) > MinCombinedLen
                                    THEN Commit(st, combined,
                                           [NoEntry EXCEPT
                                              !.word = combined,
                                              !.meaning = EnhanceMeaning(
                                                  ComposeCombinationMeaning(first, second,
                                                                            cc[1])),
                                              !.type = "sandhi_variant",
                                              !.phase = "sandhi",
                                              !.components = <<first, second>>,
                                              !.sandhi_type = "word_combination",
                                              !.frequency = 2000])
                                    ELSE st
                            IN FoldLeft(VariantStep, st2,
                                        ApplyAllSandhiToCombination(first, second))
                    IN FoldLeft(ComboStep, st1, <<<<cc[2], word>>, <<word, cc[2]>>>>)
            IN FoldLeft(WordStep, st0, high_freq_words)
    IN FoldLeft(CombinerStep, [generated_dict |-> gd, count |-> 0], common_combiners)

\* _generate_all_internal_sandhi_variants
GenerateAllInternalSandhiVariants(gd) == [generated_dict |-> gd, count |-> 0]

\* _generate_complete_sandhi_universe
GenerateCompleteSandhiUniverse(gd) ==
    LET a == GenerateAllCompoundBoundarySandhi(gd)
        b == GenerateAllWordCombinationSandhi(a.generated_dict)
        c == GenerateAllInternalSandhiVariants(b.generated_dict)
    IN [generated_dict |-> c.generated_dict, count |-> a.count + b.count + c.count]

\* _generate_complete_proper_name_universe: the declensions of the proper names
GenerateCompleteProperNameUniverse(gd) ==
    LET NameStep(st0, name) ==
            LET CellStep(st, cn) ==
                    LET form == ApplyNominalMorphology(name, cn[1], cn[2])
                    IN IF form # "" /\ form # name /\ ~ShouldSkipForm(cn[1], cn[2])
                       THEN Commit(st, form,
                              [NoEntry EXCEPT
                                 !.word = form,
                                 !.meaning = EnhanceMeaning(
                                     CaseTemplate(cn[1], proper_names.at[name].meaning)),
                                 !.type = "proper_name",
                                 !.phase = "proper_names",
                                 !.base = name,
                                 !.case = cn[1],
                                 !.number = cn[2],
                                 !.frequency = 2500])
                       ELSE st
            IN FoldLeft(CellStep,
                        Commit(st0, name,
                          [NoEntry EXCEPT
                             !.word = name,
                             !.meaning = EnhanceMeaning(proper_names.at[name].meaning),
                             !.type = "proper_name",
                             !.phase = "proper_names",
                             !.frequency = 3000]),
                        Product(cases, numbers))
    IN FoldLeft(NameStep, [generated_dict |-> gd, count |-> 0], Items(proper_names))

\* _ultimate_validation_and_enhancement: entries are read, never rewritten
UltimateValidationAndEnhancement(gd) == gd

(***************************************************************************)
(* The browsing application (src/app.py): EnhancedPaliDictionary.search    *)
(* and the search history of show_search_interface.  A letter with a       *)
(* diacritic is written by one stand-in character: "x" is the long a.      *)
(* A key that is absent from an entry of the dictionary file holds the     *)
(* empty value of its type.                                                *)
(***************************************************************************)
\* s[i] of a Python string, counted from 1
Char(s, i) == SubSeq(s, i, i)

RECURSIVE MapChars(_, _)
\* ''.join(table.get(c, c) for c in s)
MapChars(table, s) ==
    IF s = "" THEN ""
    ELSE (IF Char(s, 1) \in DOMAIN table THEN table[Char(s, 1)] ELSE Char(s, 1))
         \o MapChars(table, SubSeq(s, 2, Len(s)))

\* str.lower() on the letters the model uses
Lower(s) == MapChars(("A" :> "a") @@ ("B" :> "b") @@ ("L" :> "l"), s)

\* normalize_text(text): text.lower() in NFD without its combining marks
NormalizeText(text) == MapChars(("x" :> "a"), Lower(text))

\* hay.index(needle), counted from 0; -1 when needle is not in hay
IndexIn(needle, hay) ==
    LET hits == {i \in 0..(Len(hay) - Len(needle)) :
                    SubSeq(hay, i + 1, i + Len(needle)) = needle}
    IN IF hits = {} THEN -1 ELSE CHOOSE i \in hits : \A j \in hits : i <= j

RECURSIVE Words(_)
\* s.split(), and re.findall(r'\b\w+\b', s) on letters and blanks
Words(s) ==
    IF s = "" THEN <<>>
    ELSE IF Char(s, 1) = " " THEN Words(SubSeq(s, 2, Len(s)))
    ELSE LET blank == IndexIn(" ", s)
         IN IF blank = -1 THEN <<s>>
            ELSE <<SubSeq(s, 1, blank)>> \o Words(SubSeq(s, blank + 2, Len(s)))

\* an entry of the dictionary file with none of its optional keys
AppEntry ==
    [meaning |-> "", type |-> "", frequency |-> 0, root |-> "", components |-> <<>>,
     semantic_field |-> "", register |-> "", senses |-> <<>>]

\* data['dictionary'] of the files that initialize may load
DictionaryFiles ==
    {[keys |-> <<>>, at |-> <<>>],
     [keys |-> <<"bala", "Bala", "bxla", "balava", "abala">>,
      at   |-> ("bala" :> [AppEntry EXCEPT !.meaning = "strength power",
                                           !.type = "noun", !.frequency = 4000,
                                           !.semantic_field = "qualities"])
               @@ ("Bala" :> [AppEntry EXCEPT !.meaning = "name of a king",
                                              !.type = "proper_name",
                                              !.frequency = 3000])
               @@ ("bxla" :> [AppEntry EXCEPT !.meaning = "fool",
                                              !.type = "noun", !.frequency = 2000,
                                              !.root = "bal"])
               @@ ("balava" :> [AppEntry EXCEPT !.meaning = "having strength",
                                                !.type = "derivative",
                                                !.frequency = 2500, !.root = "bal",
                                                !.senses = <<"strong">>])
               @@ ("abala" :> [AppEntry EXCEPT !.meaning = "without strength",
                                               !.type = "compound",
                                               !.frequency = 2500,
                                               !.components = <<"a", "bala">>])]}

\* EnhancedPaliDictionary.__init__
NewDictionary ==
    [entries |-> [keys |-> <<>>, at |-> <<>>],
     search_index |-> [words |-> <<>>, normalized |-> <<>>, prefixes |-> <<>>,
                       meanings |-> <<>>, roots |-> <<>>, components |-> <<>>],
     loaded |-> FALSE]

\* build_search_index(): the indexes that search reads
BuildSearchIndex(entries) ==
    LET ws == Range(entries.keys)
        LastOf(S) ==
            entries.keys[CHOOSE i \in DOMAIN entries.keys :
                            /\ entries.keys[i] \in S
                            /\ \A j \in DOMAIN entries.keys :
                                  entries.keys[j] \in S => j <= i]
        Shorter(n) == IF n < 8 THEN n ELSE 8
        Prefixes(w) == {SubSeq(Lower(w), 1, i) : i \in 1..(Shorter(Len(Lower(w))) - 1)}
        MeaningWords(w) ==
            {m \in Range(Words(Lower(entries.at[w].meaning))) : Len(m) > 3}
        Roots(w) == IF entries.at[w].root # "" THEN {entries.at[w].root} ELSE {}
        Components(w) == Range(entries.at[w].components)
        Group(KeysOf(_)) ==
            [k \in UNION {KeysOf(w) : w \in ws} |-> {w \in ws : k \in KeysOf(w)}]
        SameNormal(n) == LET Test(w) == NormalizeText(w) = n IN Filter(Test, entries.keys)
    IN [words      |-> [l \in {Lower(w) : w \in ws} |->
                           LastOf({w \in ws : Lower(w) = l})],
        normalized |-> [n \in {NormalizeText(w) : w \in ws} |-> SameNormal(n)],
        prefixes   |-> Group(Prefixes),
        meanings   |-> Group(MeaningWords),
        roots      |-> Group(Roots),
        components |-> Group(Components)]

\* index.get(key, empty): the set or list filed under key
Filed(index, key) == IF key \in DOMAIN index THEN index[key] ELSE {}

\* _perform_search(query, query_lower, query_normalized, search_type); order gives,
\* for each of the indexes that hold sets, the order in which its sets are iterated
PerformSearch(d, query, query_lower, query_normalized, search_type, order) ==
    LET index == d.search_index
        Add(acc, word, score) ==
            IF word \in acc.seen THEN acc
            ELSE [results |-> Append(acc.results,
                                     [word |-> word, entry |-> d.entries.at[word],
                                      score |-> score]),
                  seen    |-> acc.seen \cup {word}]
        InOrder(list, S) == LET Test(w) == w \in S IN Filter(Test, list)
        exact ==
            IF Has(d.entries, query)
            THEN Add([results |-> <<>>, seen |-> {}], query, 100)
            ELSE [results |-> <<>>, seen |-> {}]
        insensitive ==
            IF query_lower \in DOMAIN index.words
            THEN Add(exact, index.words[query_lower], 95)
            ELSE exact
        PrefixStep(acc, word) == Add(acc, word, 90 - (Len(word) - Len(query)) * 2)
        prefix ==
            IF search_type \in {"all", "prefix"}
            THEN FoldLeft(PrefixStep, insensitive,
                          InOrder(order.prefixes, Filed(index.prefixes, query_lower)))
            ELSE insensitive
        ContainsStep(acc, word) ==
            IF IndexIn(query_lower, Lower(word)) # -1
            THEN Add(acc, word, 70 - IndexIn(query_lower, Lower(word)) * 2)
            ELSE acc
        contains ==
            IF search_type \in {"all", "contains"}
            THEN FoldLeft(ContainsStep, prefix, d.entries.keys)
            ELSE prefix
        NormalizedStep(acc, word) == Add(acc, word, 80)
        normalized ==
            IF search_type \in {"all", "normalized"}
               /\ query_normalized \in DOMAIN index.normalized
            THEN FoldLeft(NormalizedStep, contains, index.normalized[query_normalized])
            ELSE contains
        MeaningStep(acc, word) == Add(acc, word, 60)
        MeaningWordStep(acc, mword) ==
            FoldLeft(MeaningStep, acc,
                     InOrder(order.meanings, Filed(index.meanings, mword)))
        meaning ==
            IF search_type \in {"all", "meaning"}
            THEN FoldLeft(MeaningWordStep, normalized, Words(query_lower))
            ELSE normalized
        RootStep(acc, word) == Add(acc, word, 85)
        root ==
            IF search_type \in {"all", "root"}
            THEN FoldLeft(RootStep, meaning,
                          InOrder(order.roots, Filed(index.roots, query_lower)))
            ELSE meaning
        ComponentStep(acc, word) == Add(acc, word, 75)
        component ==
            IF search_type \in {"all", "component"}
            THEN FoldLeft(ComponentStep, root,
                          InOrder(order.components,
                                  Filed(index.components, query_lower)))
            ELSE root
    IN component.results

\* mutation of _apply_filters: every result is kept
KeepAllResults(results, filters) == results

\* _apply_filters(results, filters); filters.present is the set of keys of the dict
ApplyFilters(results, filters) ==
    LET Given(key) == key \in filters.present
        Keep(r) ==
            /\ (Given("type") /\ filters.type # "") => r.entry.type = filters.type
            /\ (Given("semantic_field") /\ filters.semantic_field # "")
                  => r.entry.semantic_field = filters.semantic_field
            /\ (Given("register") /\ filters.register # "")
                  => r.entry.register = filters.register
            /\ Given("min_frequency") => ~(r.entry.frequency < filters.min_frequency)
            /\ Given("max_frequency") => ~(r.entry.frequency > filters.max_frequency)
            /\ (Given("has_components") /\ filters.has_components)
                  => r.entry.components # <<>>
            /\ (Given("has_senses") /\ filters.has_senses) => r.entry.senses # <<>>
    IN Filter(Keep, results)

RECURSIVE SortByScore(_)
\* results.sort(key=lambda x: x[2], reverse=True): stable, the highest score first
SortByScore(results) ==
    IF results = <<>> THEN <<>>
    ELSE LET first == CHOOSE i \in DOMAIN results :
                         /\ \A j \in DOMAIN results : results[j].score <= results[i].score
                         /\ \A j \in 1..(i - 1) : results[j].score < results[i].score
         IN <<results[first]>>
            \o SortByScore(SubSeq(results, 1, first - 1)
                           \o SubSeq(results, first + 1, Len(results)))

\* search(query, search_type, filters, limit)
SearchResults(d, query, search_type, filters, limit, order) ==
    IF ~d.loaded THEN <<>>
    ELSE LET search_results ==
                 PerformSearch(d, query, Lower(query), NormalizeText(query),
                               search_type, order)
             filtered ==
                 IF filters.present # {} THEN ApplyFilters(search_results, filters)
                 ELSE search_results
         IN Take(SortByScore(filtered), limit)

\* the filters dict without a key; search(filters=None) and filters = {}
NoFilters ==
    [present |-> {}, type |-> "", semantic_field |-> "", register |-> "",
     min_frequency |-> 0, max_frequency |-> 0, has_components |-> FALSE,
     has_senses |-> FALSE]

\* the filters dict as the sidebar fills it (all six keys)
SidebarKeys ==
    {"type", "semantic_field", "min_frequency", "max_frequency", "has_components",
     "has_senses"}

\* the filters the calls of the model pass
FilterOptions ==
    {NoFilters,
     [NoFilters EXCEPT !.present = {"type"}, !.type = "noun"],
     [NoFilters EXCEPT !.present = SidebarKeys, !.max_frequency = 5000],
     [NoFilters EXCEPT !.present = SidebarKeys, !.min_frequency = 2500,
                       !.max_frequency = 3500],
     [NoFilters EXCEPT !.present = SidebarKeys, !.max_frequency = 5000,
                       !.has_components = TRUE],
     [NoFilters EXCEPT !.present = {"semantic_field", "has_senses"},
                       !.semantic_field = "qualities"],
     [NoFilters EXCEPT !.present = {"has_senses"}, !.has_senses = TRUE]}

\* the queries, search types and limits the calls of the model pass
SearchQueries ==
    {"", "b", "ba", "bala", "Bala", "BALA", "bxla", "bal", "a", "la", "strength",
     "fool strength", "gam"}

SearchTypes ==
    {"all", "exact", "prefix", "contains", "normalized", "meaning", "root", "component"}

SearchLimits == {1, 2, 100}

\* no call of search is under way
NoCall == [query |-> "", search_type |-> "", filters |-> NoFilters, limit |-> 0,
           results |-> <<>>, called |-> FALSE]

\* st.session_state as initialised at 895-902, with get('last_search', '')
NewSession == [search_history |-> <<>>, last_search |-> ""]

\* search_history[:20]
HistoryLimit == 20

\* mutation of the history update: the query is inserted whether or not it is there
AddToHistoryAlways(search_history, search_query) ==
    Take(<<search_query>> \o search_history, HistoryLimit)

\* if search_query not in search_history: insert(0, search_query); keep [:20]
AddToHistory(search_history, search_query) ==
    IF search_query \notin Range(search_history)
    THEN Take(<<search_query>> \o search_history, HistoryLimit)
    ELSE search_history

\* the application as the script leaves it before its first rerun
AppNotStarted ==
    /\ dictionary = NewDictionary
    /\ session = NewSession
    /\ search_call = NoCall
    /\ history_log = [first_order |-> <<>>, insert_order |-> <<>>]

(***************************************************************************)
(* The state machine: one run of generate_ultimate_dictionary.             *)
(***************************************************************************)
StatNames ==
    {"base_words", "morphological_forms", "prefixed_verbs", "compounds", "derivatives",
     "technical_terms", "phrasal_expressions", "numerals", "sandhi_variants",
     "proper_names"}

SubPhases == {"basic", "religious", "technical", "recursive"}

\* the field tags the knowledge base may carry for each word of FieldWords
TagOptions ==
    [sa   |-> {{"particles"}, {"beings"}, {"qualities", "beings"}, {"qualities"}, {"mind"}},
     ti   |-> {{"particles"}, {"prefixes"}, {"beings"}, {"mind"}},
     sati |-> {{"particles"}, {"body"}}]

\* kb.semantic_fields for one choice of tags
FieldsOf(tags) == [f \in Range(FieldNames) |-> {w \in FieldWords : f \in tags[w]}]

\* self.limits
LimitsOf(quarter) ==
    [morphological_forms_per_word |-> 1000,
     verbal_forms_per_root |-> 1000,
     compounds_per_type |-> 4 * quarter,
     derivatives_per_pattern |-> 10000,
     sandhi_variants_per_word |-> 100,
     max_recursive_depth |-> 5,
     max_total_target |-> 1000000]

\* the words _load_existing_dictionary may find in pali_dictionary.json
ExistingWordsOptions == {{}, {"antima"}, {"tissa", "antima"}}

\* __init__
Init ==
    /\ pc = "base"
    /\ phase_log = <<>>
    /\ \E s \in TagOptions.sa, t \in TagOptions.ti, m \in TagOptions.sati :
          semantic_fields = FieldsOf([sa |-> s, ti |-> t, sati |-> m])
    /\ existing_words \in ExistingWordsOptions
    /\ \E quarter \in (1..MaxQuarter) \cup {LargeQuarter} : limits = LimitsOf(quarter)
    /\ generated_dict = EmptyDict
    /\ generation_stats = [n \in StatNames |-> 0]
    /\ generated_compounds = {}
    /\ compounds = EmptyDict
    /\ sub_counts = [p \in SubPhases |-> 0]
    /\ quality_stats = <<>>
    /\ previous_run = <<>>
    /\ validation_failures = 0
    /\ AppNotStarted

\* the candidates a phase dropped because validate_meaning refused their meaning
Rejected(result) == IF "rejected" \in DOMAIN result THEN result.rejected ELSE 0

\* a phase of the orchestrator that leaves the compositor alone
RunPhase(here, next, stat, result) ==
    /\ pc = here
    /\ generated_dict' = result.generated_dict
    /\ generation_stats' = IF stat = "" THEN generation_stats
                           ELSE [generation_stats EXCEPT ![stat] = result.count]
    /\ phase_log' = Append(phase_log, here)
    /\ pc' = next
    /\ validation_failures' = validation_failures + Rejected(result)
    /\ UNCHANGED app_vars
    /\ UNCHANGED <<semantic_fields, existing_words, limits, generated_compounds,
                   compounds, sub_counts, quality_stats, previous_run>>

BaseEntries ==
    RunPhase("base", "morphological", "base_words",
             GenerateUltimateBaseEntries(generated_dict))

MorphologicalUniverse ==
    \E adjective_words \in ListsOfSet(AdjectiveWords) :
        RunPhase("morphological", "prefixed", "morphological_forms",
                 GenerateCompleteMorphologicalUniverse(generated_dict, adjective_words))

PrefixedUniverse ==
    RunPhase("prefixed", "compounds", "prefixed_verbs",
             GenerateCompletePrefixedUniverse(generated_dict))

\* max_total // 4
Quarter == limits.compounds_per_type \div 4

\* a sub-phase of generate_unlimited_compounds followed by compounds.update(...)
RunSubPhase(here, next, name, result) ==
    /\ pc = here
    /\ compounds' = Update(compounds, result.compounds)
    /\ generated_compounds' = result.generated_compounds
    /\ sub_counts' = [sub_counts EXCEPT ![name] = Len(result.compounds.keys)]
    /\ pc' = next
    /\ UNCHANGED app_vars
    /\ UNCHANGED <<phase_log, semantic_fields, existing_words, limits, generated_dict,
                   generation_stats, quality_stats, previous_run,
                   validation_failures>>

BasicCombinations ==
    \E all_words \in ListsOfSet(AllWords(semantic_fields)) :
        RunSubPhase("compounds", "compounds_religious", "basic",
                    GenerateAllBasicCombinations(semantic_fields, Quarter, all_words,
                                                 generated_compounds))

ReligiousCompounds ==
    \E all_others \in ListsOfSet(AllOthers(semantic_fields)) :
        RunSubPhase("compounds_religious", "compounds_technical", "religious",
                    GenerateReligiousPhilosophicalCompounds(Quarter, all_others,
                                                            generated_compounds))

TechnicalCompounds ==
    RunSubPhase("compounds_technical", "compounds_recursive", "technical",
                GenerateTechnicalSpecializedCompounds(Quarter, generated_compounds))

RecursiveCompounds ==
    RunSubPhase("compounds_recursive", "compounds_commit", "recursive",
                GenerateMultiLevelRecursiveCompounds(compounds, Quarter,
                                                     generated_compounds))

\* _generate_unlimited_compounds after the compositor has returned
UnlimitedCompounds ==
    /\ pc = "compounds_commit"
    /\ LET result == CommitCompounds(generated_dict, compounds)
       IN /\ generated_dict' = result.generated_dict
          /\ generation_stats' = [generation_stats EXCEPT !["compounds"] = result.count]
    /\ phase_log' = Append(phase_log, "compounds")
    /\ pc' = "derivatives"
    /\ UNCHANGED app_vars
    /\ UNCHANGED <<semantic_fields, existing_words, limits, generated_compounds,
                   compounds, sub_counts, quality_stats, previous_run,
                   validation_failures>>

\* mutation of the orchestrator: phase 6 is left out
DerivationalUniverseThenPhrasal ==
    RunPhase("derivatives", "phrasal", "derivatives",
             GenerateCompleteDerivationalUniverse(generated_dict))

DerivationalUniverse ==
    RunPhase("derivatives", "technical", "derivatives",
             GenerateCompleteDerivationalUniverse(generated_dict))

TechnicalVocabulary ==
    RunPhase("technical", "phrasal", "technical_terms",
             GenerateCompleteTechnicalVocabulary(generated_dict))

PhrasalUniverse ==
    RunPhase("phrasal", "numerals", "phrasal_expressions",
             GenerateCompletePhrasalUniverse(generated_dict))

\* phase 8; an exception raised inside it leaves generate_ultimate_dictionary:
\* the entries written so far stay, no statistic is set, no later phase runs
NumericalUniverse ==
    /\ pc = "numerals"
    /\ LET result == GenerateCompleteNumericalUniverse(generated_dict)
       IN IF result.raised
          THEN /\ generated_dict' = result.generated_dict
               /\ pc' = "failed"
               /\ UNCHANGED app_vars
               /\ UNCHANGED <<phase_log, semantic_fields, existing_words, limits,
                              generation_stats, generated_compounds, compounds,
                              sub_counts, quality_stats, previous_run,
                   validation_failures>>
          ELSE RunPhase("numerals", "sandhi", "numerals", result)

SandhiUniverse ==
    RunPhase("sandhi", "proper_names", "sandhi_variants",
             GenerateCompleteSandhiUniverse(generated_dict))

ProperNameUniverse ==
    RunPhase("proper_names", "validation", "proper_names",
             GenerateCompleteProperNameUniverse(generated_dict))

ValidationAndEnhancement ==
    RunPhase("validation", "done", "",
             [generated_dict |-> UltimateValidationAndEnhancement(generated_dict),
              count |-> 0])

Next ==
    \/ BaseEntries
    \/ MorphologicalUniverse
    \/ PrefixedUniverse
    \/ BasicCombinations
    \/ ReligiousCompounds
    \/ TechnicalCompounds
    \/ RecursiveCompounds
    \/ UnlimitedCompounds
    \/ DerivationalUniverse
    \/ TechnicalVocabulary
    \/ PhrasalUniverse
    \/ NumericalUniverse
    \/ SandhiUniverse
    \/ ProperNameUniverse
    \/ ValidationAndEnhancement

Spec == Init /\ [][Next]_vars

(***************************************************************************)
(* Two calls of generate_ultimate_dictionary on one instance.  The second  *)
(* call starts from the fields the first one left: nothing but the locals  *)
(* of the call (the phase position, the compositor's local mapping) is     *)
(* fresh.                                                                  *)
(***************************************************************************)
InitRerun ==
    /\ Init
    /\ existing_words = {"antima"}
    /\ limits = LimitsOf(1)
    /\ semantic_fields["beings"] = {"sa"}
    /\ semantic_fields["body"] = {"sati"}

\* the second call of generate_ultimate_dictionary on the same instance
CallAgain ==
    /\ pc = "done"
    /\ previous_run = <<>>
    /\ previous_run' = [generated_dict |-> generated_dict,
                        generation_stats |-> generation_stats]
    /\ pc' = "base"
    /\ phase_log' = <<>>
    /\ compounds' = EmptyDict
    /\ sub_counts' = [p \in SubPhases |-> 0]
    /\ UNCHANGED app_vars
    /\ UNCHANGED <<semantic_fields, existing_words, limits, generated_dict,
                   generation_stats, generated_compounds, quality_stats,
                   validation_failures>>

NextRerun == Next \/ CallAgain

SpecRerun == InitRerun /\ [][NextRerun]_vars

(***************************************************************************)
(* Runs under several values of limits["max_recursive_depth"], with the    *)
(* budget that lets the recursive sub-phase reach four-word compounds.     *)
(***************************************************************************)
InitDepth ==
    /\ pc = "base"
    /\ phase_log = <<>>
    /\ \E s \in TagOptions.sa, t \in TagOptions.ti :
          semantic_fields = FieldsOf([sa |-> s, ti |-> t, sati |-> {"particles"}])
    /\ existing_words = {"antima"}
    /\ \E d \in {2, 5, 7} :
          limits = [LimitsOf(LargeQuarter) EXCEPT !.max_recursive_depth = d]
    /\ generated_dict = EmptyDict
    /\ generation_stats = [n \in StatNames |-> 0]
    /\ generated_compounds = {}
    /\ compounds = EmptyDict
    /\ sub_counts = [p \in SubPhases |-> 0]
    /\ quality_stats = <<>>
    /\ previous_run = <<>>
    /\ validation_failures = 0
    /\ AppNotStarted

SpecDepth == InitDepth /\ [][Next]_vars

(***************************************************************************)
(* The browsing application: the dictionary object is initialised and      *)
(* search is called on it; the search page is rerun with what the user     *)
(* typed.  The generator is not running.                                   *)
(***************************************************************************)
\* the number of different queries the user types into the search page
MaxQueries == 22

\* the queries typed into the search page, in the order of their first use
HistoryQueries == [n \in 1..MaxQueries |-> "q" \o ToString(n)]

InitApp ==
    /\ Init
    /\ existing_words = {}
    /\ limits = LimitsOf(1)
    /\ semantic_fields = FieldsOf([sa |-> {"particles"}, ti |-> {"particles"},
                                   sati |-> {"particles"}])

\* initialize(file_path) with a file that load_dictionary can read
Initialize ==
    /\ ~dictionary.loaded
    /\ search_call = NoCall
    /\ \E file \in DictionaryFiles :
          dictionary' = [entries |-> file, search_index |-> BuildSearchIndex(file),
                         loaded |-> TRUE]
    /\ UNCHANGED <<generator_vars, session, search_call, history_log>>

\* a call dictionary.search(query, search_type, filters, limit)
Search ==
    /\ search_call = NoCall
    /\ \E query \in SearchQueries, search_type \in SearchTypes,
          filters \in FilterOptions, limit \in SearchLimits :
          LET index == dictionary.search_index
              meanings == UNION {Filed(index.meanings, mword) :
                                    mword \in Range(Words(Lower(query)))}
          IN \E prefixes \in ListsOfSet(Filed(index.prefixes, Lower(query))),
                by_meaning \in ListsOfSet(meanings),
                roots \in ListsOfSet(Filed(index.roots, Lower(query))),
                components \in ListsOfSet(Filed(index.components, Lower(query))) :
                search_call' =
                    [query |-> query, search_type |-> search_type,
                     filters |-> filters, limit |-> limit, called |-> TRUE,
                     results |->
                         SearchResults(dictionary, query, search_type, filters, limit,
                                       [prefixes |-> prefixes, meanings |-> by_meaning,
                                        roots |-> roots, components |-> components])]
    /\ UNCHANGED <<generator_vars, dictionary, session, history_log>>

\* the caller has taken the list that search returned
SearchReturned ==
    /\ search_call.called
    /\ search_call' = NoCall
    /\ UNCHANGED <<generator_vars, dictionary, session, history_log>>

NextSearch == Initialize \/ Search \/ SearchReturned

SpecSearch == InitApp /\ [][NextSearch]_vars

\* what the search box can hold at a rerun: nothing, the first two queries again,
\* the query of the last search, or the next query not typed so far
TypedQueries ==
    {"", session.last_search, HistoryQueries[1], HistoryQueries[2]}
    \cup {HistoryQueries[n] : n \in {Len(history_log.first_order) + 1} \cap 1..MaxQueries}

\* one rerun of show_search_interface with search_query in the box.  The block
\* "Perform search" writes last_search and the history; the lookup
\* search_type_map[search_mode] that follows names two locals of main() and
\* raises NameError, so nothing else is written.
ShowSearchInterface ==
    /\ \E search_query \in TypedQueries, search_clicked \in BOOLEAN :
          IF (search_clicked \/ search_query # session.last_search) /\ search_query # ""
          THEN /\ session' =
                     [last_search |-> search_query,
                      search_history |-> AddToHistory(session.search_history,
                                                      search_query)]
               /\ history_log' =
                     LET Others(list) ==
                             LET Test(q) == q # search_query IN Filter(Test, list)
                     IN [first_order |->
                             IF search_query \in Range(history_log.first_order)
                             THEN history_log.first_order
                             ELSE Append(history_log.first_order, search_query),
                         insert_order |->
                             IF search_query \in Range(session.search_history)
                             THEN history_log.insert_order
                             ELSE Append(Others(history_log.insert_order),
                                         search_query)]
          ELSE UNCHANGED <<session, history_log>>
    /\ UNCHANGED <<generator_vars, dictionary, search_call>>

NextHistory == Initialize \/ ShowSearchInterface

SpecHistory == InitApp /\ [][NextHistory]_vars

(***************************************************************************)
(* generate_ultimate_dictionary as a function of the three orders that     *)
(* list(set(...)) hands to a run.                                          *)
(***************************************************************************)
GenerateUltimateDictionary(adjective_words, all_words, all_others) ==
    LET p1 == GenerateUltimateBaseEntries(EmptyDict).generated_dict
        p2 == GenerateCompleteMorphologicalUniverse(p1, adjective_words).generated_dict
        p3 == GenerateCompletePrefixedUniverse(p2).generated_dict
        basic == GenerateAllBasicCombinations(semantic_fields, Quarter, all_words, {})
        religious == GenerateReligiousPhilosophicalCompounds(Quarter, all_others,
                                                             basic.generated_compounds)
        technical == GenerateTechnicalSpecializedCompounds(Quarter,
                                                           religious.generated_compounds)
        flat == Update(Update(Update(EmptyDict, basic.compounds), religious.compounds),
                       technical.compounds)
        recursive == GenerateMultiLevelRecursiveCompounds(flat, Quarter,
                                                          technical.generated_compounds)
        p4 == CommitCompounds(p3, Update(flat, recursive.compounds)).generated_dict
        p5 == GenerateCompleteDerivationalUniverse(p4).generated_dict
        p6 == GenerateCompleteTechnicalVocabulary(p5).generated_dict
        p7 == GenerateCompletePhrasalUniverse(p6).generated_dict
        p8 == GenerateCompleteNumericalUniverse(p7)
        p9 == GenerateCompleteSandhiUniverse(p8.generated_dict).generated_dict
        p10 == GenerateCompleteProperNameUniverse(p9).generated_dict
    IN IF p8.raised THEN p8.generated_dict ELSE UltimateValidationAndEnhancement(p10)

(***************************************************************************)
(* Properties.                                                             *)
(***************************************************************************)
Keys(d) == DOMAIN d.at

\* keys of the seeds the base phase writes
BaseSeedKeys == Range(base_meanings.keys) \cup Range(comprehensive_indeclinables.keys)

\* the keys are pairwise distinct and are exactly the keys of the mapping
DistinctKeys(d) ==
    /\ Range(d.keys) = Keys(d)
    /\ Len(d.keys) = Cardinality(Keys(d))

CanonicalOrder(S) == CHOOSE order \in ListsOfSet(S) : TRUE

\* C3: determinism.  Whatever orders list(set(...)) gave this run, its output
\* mapping is the one a run with any other order gives (here: the canonical one).
C3_Determinism ==
    pc = "done" =>
        generated_dict.at =
            GenerateUltimateDictionary(CanonicalOrder(AdjectiveWords),
                                       CanonicalOrder(AllWords(semantic_fields)),
                                       CanonicalOrder(AllOthers(semantic_fields))).at

\* C4: budget respect.  The compound phase, the one phase whose configured
\* budget (compounds_per_type) the code reads, commits no more entries than it.
C4_BudgetRespect == generation_stats["compounds"] <= limits.compounds_per_type

\* the ordered pairs of distinct words that pass the meaningfulness filter
ValidPairs ==
    {p \in AllWords(semantic_fields) \X AllWords(semantic_fields) :
        p[1] # p[2] /\ IsMeaningfulCombination(semantic_fields, p[1], p[2])}

\* C5: with budget N and more than N valid candidate pairs, the compound phase
\* commits exactly N entries.
C5_ExactlyBudget ==
    (pc = "derivatives" /\ Cardinality(ValidPairs) > limits.compounds_per_type)
        => generation_stats["compounds"] = limits.compounds_per_type

\* the provenance link of the entry under key k: base, else base_compound
Link(k) ==
    IF ~Has(generated_dict, k) THEN ""
    ELSE IF generated_dict.at[k].base # "" THEN generated_dict.at[k].base
    ELSE generated_dict.at[k].base_compound

\* the keys met when the links are followed from k, for at most fuel hops
RECURSIVE Chain(_, _)
Chain(k, fuel) ==
    IF fuel = 0 \/ Link(k) = "" THEN <<k>> ELSE <<k>> \o Chain(Link(k), fuel - 1)

\* the keys of the seed knowledge base
KnowledgeBaseKeys ==
    SeedKeys \cup Range(root_meanings.keys) \cup Range(proper_names.keys) \cup FieldWords

\* a chain ends well at a seed key, or at a committed entry that has no link
\* and so is made of seeds directly
Grounded(k) == k \in KnowledgeBaseKeys \/ (Has(generated_dict, k) /\ Link(k) = "")

\* C6: provenance acyclicity.  From every committed entry the links (base,
\* base_compound) never revisit a key and end at a seed within 4 hops, 3 hops
\* for a derivative.
C6_ProvenanceReachesSeed ==
    \A k \in Keys(generated_dict) :
        LET chain == Chain(k, 5)
            hops == Len(chain) - 1
        IN /\ Cardinality(Range(chain)) = Len(chain)
           /\ hops <= IF IsDerivativeType(generated_dict.at[k].type)
                      THEN 3 ELSE 4
           /\ Grounded(chain[Len(chain)])

\* the order of the phases of generate_ultimate_dictionary
PhaseOrder ==
    <<"base", "morphological", "prefixed", "compounds", "derivatives", "technical",
      "phrasal", "numerals", "sandhi", "proper_names", "validation">>

\* the positions inside phase 4
CompoundSteps ==
    {"compounds", "compounds_religious", "compounds_technical", "compounds_recursive",
     "compounds_commit"}

IsClosedClass(word) ==
    GetSemanticFields(semantic_fields, word) \cap {"particles", "prefixes", "numbers"} # {}

\* C8: no two-component compound is made of two closed-class words.
C8_NoClosedClassPair ==
    \A c \in Keys(compounds) :
        LET components == compounds.at[c].components
        IN Len(components) = 2 => ~(IsClosedClass(components[1])
                                    /\ IsClosedClass(components[2]))

\* two distinct words with the same field tags
SameFields(word1, word2) ==
    /\ word1 # word2
    /\ GetSemanticFields(semantic_fields, word1) = GetSemanticFields(semantic_fields, word2)

DecidedEarlier == {"beings", "society", "qualities", "colors", "body", "faculties"}

C10_Totality ==
    /\ \A c \in Keys(compounds) : c # "" /\ compounds.at[c].meaning # ""
    /\ \A k \in Keys(generated_dict) :
          IsCompoundType(generated_dict.at[k].type)
              => k # "" /\ generated_dict.at[k].meaning # ""

\* a religious compound whose core has no gloss has been committed
C10_GlosslessCoreCommitted ==
    \E k \in Keys(generated_dict) :
        /\ generated_dict.at[k].type = "compound_religious_core_modifier"
        /\ ~Has(base_meanings, generated_dict.at[k].components[1])
        /\ ~Has(comprehensive_indeclinables, generated_dict.at[k].components[1])

BaseEntryOf(k) == generated_dict.at[generated_dict.at[k].base]

\* the entry under k has factor/10 of the frequency of the entry it was built from
DecayedBy(k, factor) ==
    /\ Has(generated_dict, generated_dict.at[k].base)
    /\ generated_dict.at[k].frequency * 10 = BaseEntryOf(k).frequency * factor

\* C12 as stated: a secondary derivative has 0.8 times the frequency of its
\* primary derivative, and a tertiary derivative 0.8 times the frequency of
\* its secondary base.
C12_DecayByEightTenths ==
    \A k \in Keys(generated_dict) :
        generated_dict.at[k].derivation_level \in {"secondary", "tertiary"}
            => DecayedBy(k, 8)

\* C12 as the code has it: a secondary derivative records derivation_level
\* secondary, is built from a primary derivative and has 0.8 times its
\* frequency; a tertiary derivative is built from a secondary one and has 0.7
\* times its frequency.
C12_DecayPerLevel ==
    \A k \in Keys(generated_dict) :
        LET level == generated_dict.at[k].derivation_level
        IN /\ level = "secondary" =>
                 /\ DecayedBy(k, 8)
                 /\ BaseEntryOf(k).derivation_level = ""
                 /\ IsDerivativeType(BaseEntryOf(k).type)
                 /\ generated_dict.at[k].suffix \in {"-ta", "-tva", "-ya", "-ka", "-ika",
                                                     "-tara", "-tama"}
           /\ level = "tertiary" =>
                 /\ DecayedBy(k, 7)
                 /\ BaseEntryOf(k).derivation_level = "secondary"

\* the derivational phase has committed secondary and tertiary derivatives
C12_TertiaryCommitted ==
    \E k \in Keys(generated_dict) :
        /\ generated_dict.at[k].derivation_level = "tertiary"
        /\ BaseEntryOf(k).derivation_level = "secondary"

\* the seed holds a numeral whose value is no number
MalformedSeed ==
    \E n \in Range(complete_numerals.keys) : ~IsNumber(complete_numerals.at[n])

\* C13: with malformed seed data the run is stopped before the first phase:
\* no phase runs and no entry is committed.
C13_MalformedSeedStopsBeforeGeneration ==
    MalformedSeed => (phase_log = <<>> /\ Keys(generated_dict) = {})


\* C14: every candidate a generator drops because its composed meaning is empty
\* or degenerate is counted in a quality/validation counter of the orchestrator.
C14_DiscardsAreCounted ==
    validation_failures > 0 => \E counter \in DOMAIN quality_stats : quality_stats[counter] > 0

VerbalTypes == {"verb", "prefixed_verb", "derivative_denominative_verbs"}

\* C15: no committed verb form, prefixed verb or denominative verb is a first
\* person singular imperative.
C15_NoFirstSingularImperative ==
    \A k \in Keys(generated_dict) :
        LET entry == generated_dict.at[k]
        IN entry.type \in VerbalTypes
           => ~(entry.tense = "imperative" /\ entry.person = "1st"
                /\ entry.number = "singular")

\* the imperative cells were visited by each of the three generators: a second
\* person imperative of every verbal type is committed
C15_ImperativesCommitted ==
    \A t \in VerbalTypes :
        \E k \in Keys(generated_dict) :
            /\ generated_dict.at[k].type = t
            /\ generated_dict.at[k].tense = "imperative"
            /\ generated_dict.at[k].person = "2nd"

\* C16: a second call of generate_ultimate_dictionary on the same instance ends
\* with the mapping and the per-phase statistics of the first call.
C16_SecondRunRepeatsFirst ==
    (pc = "done" /\ previous_run # <<>>)
    => /\ generated_dict = previous_run.generated_dict
       /\ generation_stats = previous_run.generation_stats

\* C17: every committed entry carries a meaning and a frequency between 0 and 5
\* (0 and 5000 thousandths); the seed frequencies of the model lie in that range.
\* The empty meaning of NoEntry stands for an entry without the field.
C17_MeaningAndFrequencyRange ==
    \A k \in Keys(generated_dict) :
        /\ generated_dict.at[k].meaning # ""
        /\ generated_dict.at[k].frequency \in 0..5000

\* a run ended with a compound of two seed words, a tertiary derivative, a sandhi
\* variant and a seed entry of frequency 5 in the mapping
C17_DerivedFrequenciesCommitted ==
    /\ pc = "done"
    /\ \E k \in Keys(generated_dict) :
          /\ generated_dict.at[k].phase = "compounds"
          /\ Len(generated_dict.at[k].components) = 2
          /\ generated_dict.at[k].frequency
                = CalculateCombinationFrequency(generated_dict.at[k].components[1],
                                                generated_dict.at[k].components[2])
    /\ \E k \in Keys(generated_dict) : generated_dict.at[k].derivation_level = "tertiary"
    /\ \E k \in Keys(generated_dict) : generated_dict.at[k].phase = "sandhi"
    /\ \E k \in Keys(generated_dict) : generated_dict.at[k].frequency = 5000

\* a provenance field resolves when it is unset, a seed key or a committed key
Resolves(k) == k = "" \/ k \in KnowledgeBaseKeys \/ Has(generated_dict, k)

\* C18: registry consistency.  In every state between two phases each provenance
\* key of a committed entry (base, base_compound, primary_base, every element of
\* components) is a seed key or a committed key, and a compound of three or four
\* components is committed only with the compound it extends.
C18_ProvenanceKeysResolve ==
    \A k \in Keys(generated_dict) :
        LET entry == generated_dict.at[k]
            n == Len(entry.components)
        IN /\ Resolves(entry.base)
           /\ Resolves(entry.base_compound)
           /\ Resolves(entry.primary_base)
           /\ \A i \in 1..n : Resolves(entry.components[i])
           /\ n \in {3, 4}
                => /\ Has(generated_dict, entry.base_compound)
                   /\ generated_dict.at[entry.base_compound].components
                        = SubSeq(entry.components, 1, n - 1)

\* the valid pairs the basic sub-phase left out when it stopped at its budget
SkippedPairs ==
    IF pc \in {"base", "morphological", "prefixed", "basic"}
       \/ sub_counts["basic"] < limits.compounds_per_type \div 4
    THEN {}
    ELSE {p \in ValidPairs :
            \A c \in Keys(compounds) : compounds.at[c].components # <<p[1], p[2]>>}

\* no sub-phase returns more than max_total // 4 compounds
WithinQuarter ==
    \A p \in SubPhases : sub_counts[p] <= limits.compounds_per_type \div 4

\* a step adds no compound and no entry made of a skipped pair
SkippedStaysSkipped ==
    \A p \in SkippedPairs :
        /\ \A c \in Keys(compounds') : compounds'.at[c].components # <<p[1], p[2]>>
        /\ \A k \in Keys(generated_dict') :
              generated_dict'.at[k].components # <<p[1], p[2]>>

\* C19: a compositor sub-phase that has produced max_total // 4 compounds adds
\* no further compound, and a pair skipped at the exhausted budget is produced
\* by no later sub-phase or phase of the run.
C19_ExhaustedBudgetSkips == [](WithinQuarter) /\ [][SkippedStaysSkipped]_vars

\* the word carries none of the fields particles, prefixes, numbers
IsOpenClass(word) ==
    GetSemanticFields(semantic_fields, word) \cap {"particles", "prefixes", "numbers"} = {}

\* C20: _is_meaningful_combination accepts every pair in which at least one
\* word has no field among particles, prefixes and numbers, whether or not the
\* pair is listed in the table of meaningful combinations.
C20_OpenClassPairAccepted ==
    \A word1, word2 \in FieldWords \cup {"buddha"} :
        (IsOpenClass(word1) \/ IsOpenClass(word2))
            => IsMeaningfulCombination(semantic_fields, word1, word2)

\* the basic sub-phase composed a pair of a closed-class word and an open-class
\* word that the table of meaningful combinations does not list
C20_UnlistedPairComposed ==
    \E c \in Keys(compounds) :
        LET components == compounds.at[c].components
        IN /\ Len(components) = 2
           /\ components[1] \in AllWords(semantic_fields)
           /\ components[2] \in AllWords(semantic_fields)
           /\ ~IsOpenClass(components[1])
           /\ IsOpenClass(components[2])
           /\ ~MatchesTable(meaningful_combinations,
                            GetSemanticFields(semantic_fields, components[1]),
                            GetSemanticFields(semantic_fields, components[2]))

\* C21 as stated: a first component tagged qualities gives karmadharaya, whatever
\* other tags it carries.
C21_QualityFirstIsKarmadharaya ==
    \A word1, word2 \in FieldWords \cup {"buddha"} :
        "qualities" \in GetSemanticFields(semantic_fields, word1)
            => DetermineCompoundType(semantic_fields, word1, word2) = "karmadharaya"

\* C21 as the code has it: a first component tagged qualities gives karmadharaya
\* unless it is also tagged beings or society, which the first rule turns into
\* tatpurusa.
C21_QualityFirstAfterBeingsRule ==
    \A word1, word2 \in FieldWords \cup {"buddha"} :
        (/\ "qualities" \in GetSemanticFields(semantic_fields, word1)
         /\ GetSemanticFields(semantic_fields, word1) \cap {"beings", "society"} = {})
            => DetermineCompoundType(semantic_fields, word1, word2) = "karmadharaya"

\* the basic sub-phase typed a compound karmadharaya whose first word is tagged
\* qualities and whose second word is tagged body
C21_KarmadharayaProduced ==
    \E c \in Keys(compounds) :
        /\ compounds.at[c].type = "karmadharaya"
        /\ "qualities" \in GetSemanticFields(semantic_fields, compounds.at[c].components[1])
        /\ "body" \in GetSemanticFields(semantic_fields, compounds.at[c].components[2])

\* the compound c of the compositor extends its base compound by one component
\* and its meaning is the extension's gloss, the link, the base compound's meaning
ExtendsBase(c, link) ==
    LET info == compounds.at[c]
        n == Len(info.components)
        ext == info.components[n]
    IN /\ Has(compounds, info.base_compound)
       /\ info.components = compounds.at[info.base_compound].components \o <<ext>>
       /\ info.meaning = GetWordMeaning(ext) \o link
                            \o compounds.at[info.base_compound].meaning

\* C22: every compound of three or four components is its base compound plus
\* one extension, with the meaning "<gloss of extension> of <meaning of base>".
C22_ExtensionOfBase ==
    \A c \in Keys(compounds) :
        Len(compounds.at[c].components) > 2 => ExtendsBase(c, " of ")

IsPrimaryDerivative(entry) ==
    IsDerivativeType(entry.type) /\ entry.derivation_level = ""

\* C24: derivation depth is capped at 3.  A tertiary derivative is rare and is
\* built from a secondary derivative, a secondary derivative is built from a
\* primary derivative (never from a secondary one), and nothing is built from a
\* tertiary derivative.
C24_DerivationDepthCap ==
    \A k \in Keys(generated_dict) :
        LET entry == generated_dict.at[k]
        IN /\ entry.derivation_level = "tertiary"
                => /\ entry.rare
                   /\ Has(generated_dict, entry.base)
                   /\ BaseEntryOf(k).derivation_level = "secondary"
           /\ entry.derivation_level = "secondary"
                => /\ Has(generated_dict, entry.base)
                   /\ IsPrimaryDerivative(BaseEntryOf(k))
           /\ Has(generated_dict, entry.base)
                => BaseEntryOf(k).derivation_level # "tertiary"

\* the stems the declinable participles of a root are declined from
DeclinedParticipleBases(root) ==
    {GenerateParticipleBase(root, p_type) :
        p_type \in {p \in Range(participle_types) : IsDeclinableParticiple(p)}} \ {""}

\* C25: no entry produced by declension (an inflected noun of the nominal or the
\* technical phase, a declined proper name, a declined participle) has a key equal
\* to the unmodified base form it was declined from.
C25_DeclinedFormDiffersFromBase ==
    \A key \in Range(generated_dict.keys) :
        LET entry == generated_dict.at[key]
        IN /\ (entry.type = "inflected_noun" => key # entry.base)
           /\ (entry.type = "proper_name" /\ entry.case # "" => key # entry.base)
           /\ (entry.type = "participle" /\ entry.case # ""
                  => key \notin DeclinedParticipleBases(entry.root))

\* the counter of generation_stats each phase of the orchestrator reports into
StatOfPhase ==
    [base |-> "base_words", morphological |-> "morphological_forms",
     prefixed |-> "prefixed_verbs", compounds |-> "compounds",
     derivatives |-> "derivatives", technical |-> "technical_terms",
     phrasal |-> "phrasal_expressions", numerals |-> "numerals",
     sandhi |-> "sandhi_variants", proper_names |-> "proper_names",
     validation |-> ""]

RECURSIVE SumOfStats(_)
SumOfStats(names) ==
    IF names = {} THEN 0
    ELSE LET n == CHOOSE x \in names : TRUE
         IN generation_stats[n] + SumOfStats(names \ {n})

\* a step that completes a phase leaves in that phase's counter the number of
\* keys the phase added to generated_dict
PhaseCounterIsKeysAdded ==
    Len(phase_log') = Len(phase_log) + 1 =>
        LET stat == StatOfPhase[phase_log'[Len(phase_log')]]
        IN stat # "" =>
              generation_stats'[stat]
                  = Len(generated_dict'.keys) - Len(generated_dict.keys)

\* when the call has ended, by its return or by an exception, the counters add
\* up to the size of generated_dict
CountersAddUpAtEnd ==
    pc \in {"done", "failed"} => SumOfStats(StatNames) = Len(generated_dict.keys)

\* C26: after each phase the phase's counter in generation_stats equals the number
\* of new keys the phase added to generated_dict, and at the end of a run the
\* counters add up to the number of entries of generated_dict.
C26_CountersMatchKeys ==
    [][PhaseCounterIsKeysAdded]_vars /\ [](CountersAddUpAtEnd)

\* C27: no compound of two components the compositor produced (basic, religious
\* or technical sub-phase) has the same word as its first and its second
\* component, also when a term stands under several technical-vocabulary fields.
C27_NoSelfCompound ==
    \A key \in Range(compounds.keys) :
        LET c == compounds.at[key]
        IN Len(c.components) = 2 => c.components[1] # c.components[2]

\* the compounds _generate_religious_philosophical_compounds produced
ReligiousCompoundKeys ==
    {key \in Range(compounds.keys) : compounds.at[key].religious_core # ""}

\* C28: every compound of the religious sub-phase is typed religious_core_modifier
\* or religious_modifier_core and has its core as one of its two components,
\* first for core_modifier and second for modifier_core; the fallback type
\* religious_tatpurusa is assigned to no compound.
C28_ReligiousCompoundsHoldTheirCore ==
    /\ \A key \in ReligiousCompoundKeys :
          LET c == compounds.at[key]
          IN /\ Len(c.components) = 2
             /\ c.type \in {"religious_core_modifier", "religious_modifier_core"}
             /\ c.type = "religious_core_modifier" => c.components[1] = c.religious_core
             /\ c.type = "religious_modifier_core" => c.components[2] = c.religious_core
    /\ \A key \in Range(compounds.keys) :
          compounds.at[key].type
              \notin {"religious_tatpurusa", "religious_religious_tatpurusa"}

\* the religious sub-phase has produced a compound of either order
C28_BothOrdersProduced ==
    /\ \E key \in ReligiousCompoundKeys :
          compounds.at[key].type = "religious_core_modifier"
    /\ \E key \in ReligiousCompoundKeys :
          compounds.at[key].type = "religious_modifier_core"

\* the entry meets every filter the call was given
SatisfiesFilters(entry, filters) ==
    LET Active(key) == key \in filters.present
    IN /\ (Active("type") /\ filters.type # "") => entry.type = filters.type
       /\ (Active("semantic_field") /\ filters.semantic_field # "")
             => entry.semantic_field = filters.semantic_field
       /\ (Active("register") /\ filters.register # "")
             => entry.register = filters.register
       /\ Active("min_frequency") => entry.frequency >= filters.min_frequency
       /\ Active("max_frequency") => entry.frequency <= filters.max_frequency
       /\ (Active("has_components") /\ filters.has_components)
             => Len(entry.components) > 0
       /\ (Active("has_senses") /\ filters.has_senses) => Len(entry.senses) > 0

\* C29: search returns at most limit results, no word twice, the scores never
\* rising, every result an entry of the dictionary that meets all the filters of
\* the call, and the entry whose key is the query, when it meets the filters, in
\* the first place; on a dictionary that is not loaded it returns nothing.
C29_SearchContract ==
    search_call.called =>
        LET results == search_call.results
            entries == dictionary.entries
        IN /\ Len(results) <= search_call.limit
           /\ \A i, j \in DOMAIN results : i # j => results[i].word # results[j].word
           /\ \A i \in 1..(Len(results) - 1) : results[i].score >= results[i + 1].score
           /\ \A i \in DOMAIN results :
                 /\ Has(entries, results[i].word)
                 /\ results[i].entry = entries.at[results[i].word]
                 /\ SatisfiesFilters(results[i].entry, search_call.filters)
           /\ (/\ dictionary.loaded
               /\ Has(entries, search_call.query)
               /\ SatisfiesFilters(entries.at[search_call.query], search_call.filters))
                 => Len(results) > 0 /\ results[1].word = search_call.query
           /\ ~dictionary.loaded => results = <<>>

\* a filtered call whose query is a key: the key's entry comes first, the list is
\* cut at the limit, and a filtered-out entry and a cut-off entry both matched
C29_ExactMatchLeadsCutList ==
    /\ search_call.called
    /\ dictionary.loaded
    /\ search_call.search_type = "all"
    /\ search_call.filters.present # {}
    /\ Len(search_call.results) = search_call.limit
    /\ search_call.limit > 1
    /\ search_call.results[1].word = search_call.query
    /\ \E w \in Range(dictionary.entries.keys) :
          /\ IndexIn(Lower(search_call.query), Lower(w)) >= 0
          /\ ~SatisfiesFilters(dictionary.entries.at[w], search_call.filters)
    /\ \E w \in Range(dictionary.entries.keys) :
          /\ IndexIn(Lower(search_call.query), Lower(w)) >= 0
          /\ SatisfiesFilters(dictionary.entries.at[w], search_call.filters)
          /\ \A i \in DOMAIN search_call.results : search_call.results[i].word # w

\* the place of query q in a list that holds it once
PlaceIn(list, q) == CHOOSE i \in DOMAIN list : list[i] = q

\* the history holds at most 20 queries, none of them empty, none twice, each one
\* behind the queries that come later in the given order
HistoryFollows(order) ==
    LET history == session.search_history
    IN /\ Len(history) <= 20
       /\ \A i \in DOMAIN history : history[i] # "" /\ history[i] \in Range(order)
       /\ \A i, j \in DOMAIN history :
             i < j => /\ history[i] # history[j]
                      /\ PlaceIn(order, history[i]) > PlaceIn(order, history[j])

\* a rerun that searches a query the history holds leaves the history as it was
RepeatLeavesHistory ==
    session'.last_search \in Range(session.search_history)
        => session'.search_history = session.search_history

\* C30: the search history holds at most 20 queries, no empty query and no query
\* twice, in the order of their first submission with the most recent first, and
\* repeating a query that is in the history leaves the history unchanged.
C30_HistoryInFirstSubmissionOrder ==
    [](HistoryFollows(history_log.first_order)) /\ [][RepeatLeavesHistory]_vars

\* C30, amended: as above, the order being that of the last insertion of each
\* query: a query that the cap has dropped is inserted anew when it is searched
\* again and then stands in front of queries first submitted after it.
C30_HistoryInInsertionOrder ==
    [](HistoryFollows(history_log.insert_order)) /\ [][RepeatLeavesHistory]_vars

\* the full history leads with the first query ever submitted, which the cap had
\* dropped and the user has searched again
C30_DroppedQueryBackInFront ==
    /\ Len(session.search_history) = 20
    /\ Len(history_log.first_order) > 20
    /\ session.search_history[1] = history_log.first_order[1]

====
